---- MODULE Spec2Model ----
(***************************************************************************)
(* Model of the content.js incremental build engine:                       *)
(*   lib/monitor.js   Monitor       (process supervisor)                   *)
(*   lib/compiler.js  JobQueue, CompilerCache (compiler pool)              *)
(*   lib/database.js  SourceDatabase, TargetDatabase                       *)
(*   lib/project.js   TargetBuilder, PackageBuilder                        *)
(* together with the pieces of the environment they run against: the node  *)
(* event loop (process.nextTick queue, I/O callbacks), the forked worker   *)
(* processes with their IPC pipes, and the file system.                    *)
(*                                                                         *)
(* JavaScript runs every handler to completion, so each action below is    *)
(* one run-to-completion callback (or one API call made by the client)     *)
(* including every synchronous listener it triggers.  The handlers are     *)
(* written as operators from a state record to a state record, in the      *)
(* order of the statements of the source.                                  *)
(***************************************************************************)
EXTENDS Integers, Sequences, FiniteSets, TLC

VARIABLES
    mon,        \* Monitor objects, by launch identity
    child,      \* the forked worker process of each Monitor and its IPC pipes
    ticks,      \* the process.nextTick queue
    pool,       \* CompilerCache fields
    queue,      \* JobQueue.jobList of each Monitor's workQueue
    builders,   \* the TargetBuilder objects, in order of construction
    sdb,        \* SourceDatabase of each package's Target
    tdb,        \* TargetDatabase of each package's Target
    fs,         \* file system: source mtimes/sizes, outputs, manifests
    worker,     \* what the worker programs answer (fixed per behaviour)
    log,        \* history: pool events 'started'/send/'complete' per Monitor
    mlog,       \* history: Monitor events with the call stack they ran in
    hist,       \* history: counters of emitted events and of faults
    walk,       \* a TargetBuilder walking a source tree: sourceFiles, 'skipped'
    halted      \* an exception left a callback uncaught: the process is gone

vars == <<mon, child, ticks, pool, queue, builders, sdb, tdb, fs, worker,
          log, mlog, hist, walk, halted>>

-----------------------------------------------------------------------------
(* Bounds of the model *)

MaxRuns == 2        \* buildTarget calls per behaviour
MaxCrashes == 1     \* unexpected worker exits per behaviour
MaxTouch == 1       \* modifications of source files per behaviour
MaxRestartCfg == 2  \* largest maxRestartCount in a pipeline definition
MaxDbOps == 5       \* calls of a client on a database object per behaviour
MaxTree == 3        \* files of a source tree that is walked
MaxRepeat == 1      \* BUILD_RESULT messages a worker writes a second time

-----------------------------------------------------------------------------
(* The universe: launch identities, routes, packages and files *)

Keys == {1, 2}
NoKey == 0
Range(seq) == { seq[i] : i \in 1..Len(seq) }

\* strings the code builds or takes apart are sequences of characters
RECURSIVE JoinWith(_, _)
JoinWith(parts, sep) ==
    IF parts = <<>> THEN <<>>
    ELSE IF Len(parts) = 1 THEN parts[1]
    ELSE parts[1] \o sep \o JoinWith(Tail(parts), sep)

\* resource types and platforms; a route is "type" or "type.platform"
TypeX == <<"x">>
TypeY == <<"y">>
PlatformP == <<"p">>
GENERIC_PLATFORM == <<"g">>
RouteOrder == <<TypeX, TypeY, TypeX \o <<".">> \o PlatformP>>
RouteSet == Range(RouteOrder)

\* Monitor configuration objects of a pipeline definition
ProcessorRoot == <<"/", "r">>
NoLaunch == [path |-> <<>>, arguments |-> <<>>, workingDirectory |-> <<>>]
LaunchA == [path |-> <<"c">>, arguments |-> << <<"u">>, <<"v">> >>, workingDirectory |-> <<>>]
LaunchA2 == [LaunchA EXCEPT !.arguments = << <<"u", " ", "v">> >>]
LaunchB == [LaunchA EXCEPT !.path = <<"d">>]

PipelineDef(x, y, xp) ==
    [r \in RouteSet |-> IF r = RouteOrder[1] THEN x ELSE IF r = RouteOrder[2] THEN y ELSE xp]

\* pipeline definitions: route -> Monitor configuration (NoLaunch: route absent)
PipelineConfigs ==
    { PipelineDef(NoLaunch, NoLaunch, NoLaunch), PipelineDef(LaunchA, NoLaunch, NoLaunch),
      PipelineDef(LaunchA, LaunchA, NoLaunch),   PipelineDef(LaunchA, LaunchB, NoLaunch) }

\* pipeline definitions with platform routes and with look-alike launch lines
RouteConfigs ==
    PipelineConfigs \cup
    { PipelineDef(LaunchA, LaunchA2, NoLaunch), PipelineDef(LaunchA, NoLaunch, LaunchB),
      PipelineDef(LaunchA, LaunchB, LaunchB),   PipelineDef(NoLaunch, LaunchA, LaunchB),
      PipelineDef(LaunchA, LaunchA, LaunchA) }

-----------------------------------------------------------------------------
(* Strings of JavaScript: positions count from 0, -1 stands for "not found" *)

\* String.prototype.indexOf(ch, from)
RECURSIVE IndexOf(_, _, _)
IndexOf(str, ch, from) ==
    IF from >= Len(str) THEN -1
    ELSE IF str[from + 1] = ch THEN from
    ELSE IndexOf(str, ch, from + 1)

\* String.prototype.lastIndexOf(ch)
RECURSIVE LastIndexFrom(_, _, _)
LastIndexFrom(str, ch, from) ==
    IF from < 0 THEN -1
    ELSE IF str[from + 1] = ch THEN from
    ELSE LastIndexFrom(str, ch, from - 1)

LastIndexOf(str, ch) == LastIndexFrom(str, ch, Len(str) - 1)

\* an index argument of substring is clamped to 0..length
Clamp(str, i) == IF i < 0 THEN 0 ELSE IF i > Len(str) THEN Len(str) ELSE i

\* String.prototype.substring(start, end): the arguments are clamped and
\* swapped when start > end
Substring(str, start, end) ==
    LET a == Clamp(str, start)
        b == Clamp(str, end)
    IN  IF a <= b THEN SubSeq(str, a + 1, b) ELSE SubSeq(str, b + 1, a)

\* String.prototype.split(ch): the empty string gives one empty piece
RECURSIVE Split(_, _)
Split(str, ch) ==
    LET i == IndexOf(str, ch, 0)
    IN  IF i = -1 THEN <<str>>
        ELSE <<Substring(str, 0, i)>> \o Split(Substring(str, i + 1, Len(str)), ch)

\* parseResourcePath of a path relative to the source root
ParseResourcePath(pn) ==
    LET ls == LastIndexOf(pn, "/")
        fp == IndexOf(pn, ".", ls + 1)
        lp == LastIndexOf(pn, ".")
        rn == Substring(pn, 0, fp)
        rt == Substring(pn, lp + 1, Len(pn))
        ps == IF fp = lp THEN <<>> ELSE Substring(pn, fp + 1, lp)
    IN  [resourceName |-> rn, resourceType |-> rt, properties |-> Split(ps, ".")]

\* String.prototype.charCodeAt for the characters of the file names
CharCode == [a |-> 97, b |-> 98, c |-> 99, d |-> 100, s |-> 115, w |-> 119, x |-> 120]

\* A number of JavaScript that needs more than 31 bits is kept as the pair
\* [hi, lo] that stands for hi * 65536 + lo, with lo in 0..65535.
Word == 65536

\* ToInt32 of a number: the unsigned 32 bit pattern as [hi, lo]
ToBits(n) == [hi |-> n.hi % Word, lo |-> n.lo]

\* hash << 7 as a signed 32 bit number
ShiftLeft7(n) ==
    LET u == ToBits(n)
        lo == (u.lo * 128) % Word
        hi == (u.hi * 128 + (u.lo * 128) \div Word) % Word
    IN  [hi |-> IF hi >= Word \div 2 THEN hi - Word ELSE hi, lo |-> lo]

\* hash >> 25 (arithmetic shift of the signed 32 bit number)
ShiftRight25(n) ==
    LET top == ToBits(n).hi \div 512
    IN  IF top >= 64 THEN top - 128 ELSE top

\* the sum of JavaScript numbers, which is not reduced to 32 bits
AddSmall(n, k) ==
    [hi |-> n.hi + (n.lo + k) \div Word, lo |-> (n.lo + k) % Word]

\* one round of the loop of Target.targetPathFor
HashStep(hash, ch) == AddSmall(ShiftLeft7(hash), ShiftRight25(hash) + ch)

RECURSIVE HashFrom(_, _, _)
HashFrom(hash, resourceName, i) ==
    IF i > Len(resourceName) THEN hash
    ELSE HashFrom(HashStep(hash, CharCode[resourceName[i]]), resourceName, i + 1)

HexDigit == <<"0", "1", "2", "3", "4", "5", "6", "7", "8", "9", "a", "b", "c", "d", "e", "f">>

\* the last `width` digits of n (all digits, at least one, when width = 0)
RECURSIVE HexOf(_, _)
HexOf(n, width) ==
    IF width = 0
    THEN IF n < 16 THEN <<HexDigit[n + 1]>> ELSE HexOf(n \div 16, 0) \o <<HexDigit[(n % 16) + 1]>>
    ELSE IF width = 1 THEN <<HexDigit[(n % 16) + 1]>>
    ELSE HexOf(n \div 16, width - 1) \o <<HexDigit[(n % 16) + 1]>>

\* Number.prototype.toString(16): a minus sign and the digits of the magnitude
ToString16(n) ==
    LET neg == n.hi < 0
        mag == IF ~neg THEN n
               ELSE IF n.lo = 0 THEN [hi |-> 0 - n.hi, lo |-> 0]
               ELSE [hi |-> 0 - n.hi - 1, lo |-> Word - n.lo]
        digits == IF mag.hi = 0 THEN HexOf(mag.lo, 0)
                  ELSE HexOf(mag.hi, 0) \o HexOf(mag.lo, 4)
    IN  IF neg THEN <<"-">> \o digits ELSE digits

\* Target.targetPathFor: the stem of the target path of a resource name
TargetStem(resourceName) == ToString16(HashFrom([hi |-> 0, lo |-> 0], resourceName, 1))

-----------------------------------------------------------------------------
Packages == {"P", "Q"}
Files == {"a", "b", "c"}
SourceTree == [P |-> <<"a", "b">>, Q |-> <<"c">>]
ResourceType == [a |-> TypeX, b |-> TypeY, c |-> TypeX]
Platform == [a |-> PlatformP, b |-> GENERIC_PLATFORM, c |-> GENERIC_PLATFORM]

\* IPC message types
VERSION_QUERY == 0
VERSION_DATA == 1
BUILD_REQUEST == 2
BUILD_RESULT == 3

NoEntry == [relativePath |-> "", writeTime |-> 0, fileSize |-> 0,
            references |-> <<>>, dependencies |-> <<>>]
NoJob == [run |-> 0, file |-> "", entry |-> NoEntry]

Msg(t, j, ok, refs, outs) ==
    [type |-> t, job |-> j, success |-> ok, references |-> refs, outputs |-> outs]

-----------------------------------------------------------------------------
(* The state record the handlers work on *)

Cur == [mon |-> mon, child |-> child, ticks |-> ticks, pool |-> pool,
        queue |-> queue, builders |-> builders, sdb |-> sdb, tdb |-> tdb,
        fs |-> fs, worker |-> worker, log |-> log, mlog |-> mlog,
        hist |-> hist, walk |-> walk, thrown |-> FALSE]

Commit(s) ==
    /\ mon' = s.mon
    /\ child' = s.child
    /\ ticks' = s.ticks
    /\ pool' = s.pool
    /\ queue' = s.queue
    /\ builders' = s.builders
    /\ sdb' = s.sdb
    /\ tdb' = s.tdb
    /\ fs' = s.fs
    /\ worker' = s.worker
    /\ log' = s.log
    /\ mlog' = s.mlog
    /\ hist' = s.hist
    /\ walk' = s.walk
    /\ halted' = s.thrown

\* an exception is thrown: the rest of the call chain is skipped
Throw(s) == [s EXCEPT !.thrown = TRUE]

-----------------------------------------------------------------------------
(* lib/project.js: TargetBuilder.determineSourceFiles *)

PlatformQ == <<"q">>

\* the recognized platform names of the project
Platforms == <<PlatformP, PlatformQ>>

\* the files a source tree may hold, as paths relative to the source root
TreeFiles ==
    { <<"a", ".", "x">>, <<"a", ".", "p", ".", "x">>, <<"a", ".", "q", ".", "x">>,
      <<"a", ".", "y">>, <<"b">>, <<"d", ".", "b", "/", "c">>,
      <<"s", "c", "c", "w", "x", "a", "a", "a", ".", "x">> }

\* the orders in which walkTree may report the files of a tree
RECURSIVE TreeOrders(_)
TreeOrders(n) ==
    IF n = 0 THEN { <<>> }
    ELSE LET shorter == TreeOrders(n - 1)
         IN  shorter \cup { Append(o, f) : o \in shorter, f \in TreeFiles }

NoSource == [resourceName |-> <<>>, sourcePath |-> <<>>, targetPath |-> <<>>,
             platform |-> <<>>, kept |-> FALSE]

NoWalk == [tree |-> <<>>, target |-> GENERIC_PLATFORM, index |-> 0,
           sourceFiles |-> <<>>, skipped |-> <<>>]

\* TargetBuilder.determinePlatform
RECURSIVE DeterminePlatform(_, _)
DeterminePlatform(properties, i) ==
    IF i > Len(properties) THEN GENERIC_PLATFORM
    ELSE IF properties[i] \in Range(Platforms) THEN properties[i]
    ELSE DeterminePlatform(properties, i + 1)

\* this.sourceFiles[resourceName]
SourceFileOf(w, resourceName) ==
    IF \E i \in 1..Len(w.sourceFiles) : w.sourceFiles[i].resourceName = resourceName
    THEN LET i == CHOOSE i \in 1..Len(w.sourceFiles) :
                      w.sourceFiles[i].resourceName = resourceName
         IN  w.sourceFiles[i]
    ELSE NoSource

\* this.sourceFiles[resourceName] = record: a new key is added behind the
\* others, an old key keeps its place
SetSourceFile(w, rec) ==
    IF SourceFileOf(w, rec.resourceName).kept
    THEN [w EXCEPT !.sourceFiles =
             [i \in 1..Len(@) |-> IF @[i].resourceName = rec.resourceName THEN rec ELSE @[i]]]
    ELSE [w EXCEPT !.sourceFiles = Append(@, rec)]

\* TargetBuilder.skipSourceFile as called by checkSourceFile
WalkSkip(w, sourcePath, targetPath, why) ==
    [w EXCEPT !.skipped = Append(@, [sourcePath |-> sourcePath,
                                     targetPath |-> targetPath, reason |-> why])]

WhyOtherTarget == "Source file does not match current build target"
WhyOverridden == "Source file overridden by platform-specific version"

\* a checkSourceFile that forgets the generic file it has already kept
CheckSourceFile_NoDelayedSkip(w, sourcePath) ==
    LET parts == ParseResourcePath(sourcePath)
        resourceName == parts.resourceName
        platform == DeterminePlatform(parts.properties, 1)
        targetPath == TargetStem(resourceName)
        res == SourceFileOf(w, resourceName)
        rec == [resourceName |-> resourceName, sourcePath |-> sourcePath,
                targetPath |-> targetPath, platform |-> platform, kept |-> TRUE]
    IN  IF platform # GENERIC_PLATFORM /\ platform # w.target
        THEN WalkSkip(w, sourcePath, targetPath, WhyOtherTarget)
        ELSE IF /\ platform = GENERIC_PLATFORM /\ GENERIC_PLATFORM # w.target
                /\ res.kept /\ res.platform # GENERIC_PLATFORM
        THEN WalkSkip(w, sourcePath, targetPath, WhyOverridden)
        ELSE SetSourceFile(w, rec)

\* TargetBuilder.checkSourceFile for a file
CheckSourceFile(w, sourcePath) ==
    LET parts == ParseResourcePath(sourcePath)
        resourceName == parts.resourceName
        platform == DeterminePlatform(parts.properties, 1)
        targetPath == TargetStem(resourceName)
        res == SourceFileOf(w, resourceName)
        rec == [resourceName |-> resourceName, sourcePath |-> sourcePath,
                targetPath |-> targetPath, platform |-> platform, kept |-> TRUE]
    IN  IF platform # GENERIC_PLATFORM /\ platform # w.target
        THEN WalkSkip(w, sourcePath, targetPath, WhyOtherTarget)
        ELSE IF /\ platform = GENERIC_PLATFORM /\ GENERIC_PLATFORM # w.target
                /\ res.kept /\ res.platform # GENERIC_PLATFORM
        THEN WalkSkip(w, sourcePath, targetPath, WhyOverridden)
        ELSE LET w1 == IF platform = w.target /\ res.kept /\ res.platform = GENERIC_PLATFORM
                       THEN WalkSkip(w, res.sourcePath, res.targetPath, WhyOverridden)
                       ELSE w
             IN  SetSourceFile(w1, rec)

-----------------------------------------------------------------------------
(* lib/database.js *)

\* an array slot that was never assigned (reads as undefined)
Hole == [hole |-> TRUE]

\* JSON null
Null == [null |-> TRUE]

DbKeys == Files \cup {"ta", "tb", "tc"}

\* new SourceDatabase() / new TargetDatabase() (platform: TargetDatabase only)
NewDatabase == [bundleName |-> "", platform |-> <<>>,
                entries |-> <<>>, entryTable |-> [f \in DbKeys |-> 0],
                dirty |-> FALSE, saves |-> 0, loaded |-> FALSE]

\* a database file that does not exist
NoFile == [exists |-> FALSE, bundleName |-> "", platform |-> <<>>, entries |-> <<>>]

\* loadSourceDatabase / loadTargetDatabase on a project without database
\* files: a new database, marked dirty
LoadDatabase == [NewDatabase EXCEPT !.dirty = TRUE, !.loaded = TRUE]

\* entryTable holds 1-based positions; 0 stands for undefined
DbHas(db, key) == db.entryTable[key] # 0

\* query: entries[entryTable[key]], undefined when the key has no index or
\* the index lies outside the array
DbQuery(db, key) ==
    IF DbHas(db, key) /\ db.entryTable[key] <= Len(db.entries)
    THEN db.entries[db.entryTable[key]]
    ELSE Hole

\* an assignment past the end of an array leaves holes before it
RECURSIVE PadTo(_, _)
PadTo(entries, n) ==
    IF Len(entries) >= n THEN entries ELSE PadTo(Append(entries, Hole), n)

\* an insert that leaves the dirty flag alone
DbInsert_Clean(db, entry) ==
    LET key == entry.relativePath
        existing == db.entryTable[key]
        index == IF existing # 0 THEN existing ELSE Len(db.entries) + 1
    IN  [db EXCEPT !.entries = [PadTo(@, index) EXCEPT ![index] = entry],
                   !.entryTable[key] = index]

DbInsert(db, entry) ==
    LET key == entry.relativePath
        existing == db.entryTable[key]
        index == IF existing # 0 THEN existing ELSE Len(db.entries) + 1
    IN  [db EXCEPT !.entries = [PadTo(@, index) EXCEPT ![index] = entry],
                   !.entryTable[key] = index,
                   !.dirty = TRUE]

\* Array.prototype.splice(index, 1)
Splice(entries, index) ==
    IF index > Len(entries) THEN entries
    ELSE SubSeq(entries, 1, index - 1) \o SubSeq(entries, index + 1, Len(entries))

\* remove: the positions of the entries behind the removed one are not
\* updated in entryTable
DbRemove(db, key) ==
    LET index == db.entryTable[key]
    IN  IF index # 0
        THEN [db EXCEPT !.entryTable[key] = 0,
                        !.entries = Splice(@, index),
                        !.dirty = TRUE]
        ELSE db

DbSave(db) == [db EXCEPT !.dirty = FALSE, !.saves = @ + 1]

\* JSON.stringify of a Date gives its ISO text; new Date(text) reads it back
DateToJSON(t) == [iso |-> t]
NewDate(v) == v.iso

\* the file SourceDatabase.save writes: holes of an array are written as null
SourceStringify(db) ==
    [exists |-> TRUE, bundleName |-> db.bundleName, platform |-> <<>>,
     entries |-> [i \in 1..Len(db.entries) |->
                     IF db.entries[i] = Hole THEN Null
                     ELSE [db.entries[i] EXCEPT !.writeTime = DateToJSON(@)]]]

\* the file TargetDatabase.save writes
TargetStringify(db) ==
    [exists |-> TRUE, bundleName |-> db.bundleName, platform |-> db.platform,
     entries |-> [i \in 1..Len(db.entries) |->
                     IF db.entries[i] = Hole THEN Null ELSE db.entries[i]]]

\* the loop of SourceDatabase.load; w carries the database and thrown
RECURSIVE SourceLoadFrom(_, _)
SourceLoadFrom(w, i) ==
    IF i > Len(w.db.entries) THEN w
    ELSE LET en == w.db.entries[i]
         IN  IF en = Null THEN [w EXCEPT !.thrown = TRUE]   \* en.writeTime of null
             ELSE SourceLoadFrom(
                      [w EXCEPT !.db.entries[i].writeTime = NewDate(en.writeTime),
                                !.db.entryTable[en.relativePath] = i], i + 1)

\* SourceDatabase.load
SourceLoad(db, data) ==
    SourceLoadFrom([db |-> [db EXCEPT !.bundleName = data.bundleName,
                                      !.entries = data.entries,
                                      !.entryTable = [f \in DbKeys |-> 0],
                                      !.dirty = FALSE],
                    thrown |-> FALSE], 1)

\* the loop of TargetDatabase.load
RECURSIVE TargetLoadFrom(_, _)
TargetLoadFrom(w, i) ==
    IF i > Len(w.db.entries) THEN w
    ELSE LET en == w.db.entries[i]
         IN  IF en = Null THEN [w EXCEPT !.thrown = TRUE]   \* en.relativePath of null
             ELSE TargetLoadFrom([w EXCEPT !.db.entryTable[en.relativePath] = i], i + 1)

\* TargetDatabase.load
TargetLoad(db, data) ==
    TargetLoadFrom([db |-> [db EXCEPT !.bundleName = data.bundleName,
                                      !.platform = data.platform,
                                      !.entries = data.entries,
                                      !.entryTable = [f \in DbKeys |-> 0],
                                      !.dirty = FALSE],
                    thrown |-> FALSE], 1)

\* a mutation of a stored record through a reference to it (no insert)
DbPoke(db, key, entry) ==
    IF DbHas(db, key) THEN [db EXCEPT !.entries[db.entryTable[key]] = entry] ELSE db

SourceCreate(s, f) ==
    [relativePath |-> f, writeTime |-> s.fs.mtime[f], fileSize |-> s.fs.size[f],
     references |-> <<>>, dependencies |-> <<>>]

\* The package root, the absolute path of a file below it, and
\* Path.relative(rootPath, path): workers report absolute paths, the
\* databases store paths relative to the package root.
RootPath == "/"
Absolute(rel) == <<RootPath, rel>>
PathRelative(rootPath, path) == IF path[1] = rootPath THEN path[2] ELSE path

\* a list that takes an element whether or not it holds it already
AddAlways(list, x) == Append(list, x)

\* addReference / addDependency / addOutput: append iff not present
AddUnique(list, x) == IF x \in Range(list) THEN list ELSE Append(list, x)

\* Target.targetPathFor: the stem of the target of a resource
TargetPathFor == [a |-> "ta", b |-> "tb", c |-> "tc"]

TargetCreate(f) == [relativePath |-> TargetPathFor[f], sourcePath |-> f, outputs |-> <<>>]

-----------------------------------------------------------------------------
(* lib/project.js: PackageBuilder *)

\* TargetBuilder.writePackageManifest: one resource record per target
\* record, read through the source record of its sourcePath
WritePackageManifest(s, p) ==
    IF \E i \in 1..Len(s.tdb[p].entries) :
           ~DbHas(s.sdb[p], s.tdb[p].entries[i].sourcePath)
    THEN Throw(s)
    ELSE [s EXCEPT !.fs.manifest[p] = TRUE, !.fs.manifestWrites[p] = @ + 1]

\* PackageBuilder.checkComplete
CheckComplete(s, b) == 0 = s.builders[b].expect

\* a targetComplete that writes the manifest at the end of every run
\* without error
TargetComplete_AlwaysManifest(s, b) ==
    LET p == s.builders[b].pkg
        s1 == IF s.sdb[p].dirty THEN [s EXCEPT !.sdb[p] = DbSave(@),
                                               !.fs.sourceDb[p] = SourceStringify(s.sdb[p])]
              ELSE s
        s2 == IF s.tdb[p].dirty THEN [s1 EXCEPT !.tdb[p] = DbSave(@),
                                                !.fs.targetDb[p] = TargetStringify(s.tdb[p])]
              ELSE s1
        s3 == IF 0 = s.builders[b].errors THEN WritePackageManifest(s2, p) ELSE s2
    IN  IF s3.thrown THEN s3
        ELSE [s3 EXCEPT !.builders[b].listening = FALSE,
                        !.builders[b].finished = @ + 1,
                        !.builders[b].finishSuccess = (s.builders[b].errors = 0)]

\* PackageBuilder.targetComplete followed by notifyComplete ('finish')
TargetComplete(s, b) ==
    LET p == s.builders[b].pkg
        srcDirty == s.sdb[p].dirty
        tgtDirty == s.tdb[p].dirty
        s1 == IF srcDirty THEN [s EXCEPT !.sdb[p] = DbSave(@),
                                         !.fs.sourceDb[p] = SourceStringify(s.sdb[p])]
              ELSE s
        s2 == IF tgtDirty THEN [s1 EXCEPT !.tdb[p] = DbSave(@),
                                          !.fs.targetDb[p] = TargetStringify(s.tdb[p])]
              ELSE s1
        wasModified == srcDirty \/ tgtDirty \/ ~s.fs.manifest[p]
        s3 == IF wasModified /\ 0 = s.builders[b].errors
              THEN WritePackageManifest(s2, p) ELSE s2
    IN  IF s3.thrown THEN s3
        ELSE [s3 EXCEPT !.builders[b].listening = FALSE,
                        !.builders[b].finished = @ + 1,
                        !.builders[b].finishSuccess = (s.builders[b].errors = 0)]

\* the tail shared by handleFileSkipped / handleFileSuccess / handleFileError
CountEvent(s, b) ==
    IF s.builders[b].started
    THEN LET s1 == [s EXCEPT !.builders[b].expect = @ - 1]
         IN  IF CheckComplete(s1, b) THEN TargetComplete(s1, b) ELSE s1
    ELSE s

\* a skipped file counted as a failed one
PB_HandleFileSkipped_AsError(s, b) == CountEvent([s EXCEPT !.builders[b].errors = @ + 1], b)

PB_HandleFileSkipped(s, b) == CountEvent([s EXCEPT !.builders[b].skipped = @ + 1], b)

PB_HandleFileSuccess(s, b) == CountEvent([s EXCEPT !.builders[b].success = @ + 1], b)

PB_HandleFileError(s, b) == CountEvent([s EXCEPT !.builders[b].errors = @ + 1], b)

-----------------------------------------------------------------------------
(* lib/project.js: TargetBuilder, the events it emits and the listeners of  *)
(* the pool's events                                                       *)

\* EventEmitter.emit on a TargetBuilder.  The PackageBuilder's listeners
\* are attached in buildTarget and removed by removeAllListeners in
\* targetComplete; an 'error' event without a listener throws.
BuilderEmit(s, b, ev) ==
    IF s.builders[b].listening
    THEN CASE ev = "skipped" -> PB_HandleFileSkipped(s, b)
           [] ev = "success" -> PB_HandleFileSuccess(s, b)
           [] ev = "error"   -> PB_HandleFileError(s, b)
           [] OTHER          -> s
    ELSE IF ev = "error" THEN Throw(s) ELSE s

\* TargetBuilder.skipSourceFile
SkipSourceFile(s, b) == BuilderEmit(s, b, "skipped")

\* TargetBuilder.handleFileSkipped (listener of the pool's 'skipped')
TB_HandleFileSkipped(s, b) == SkipSourceFile(s, b)

\* TargetBuilder.handleFileStarted (listener of the pool's 'started')
TB_HandleFileStarted(s, b) == BuilderEmit(s, b, "started")

\* The loop over result.references of handleFileComplete.  w carries the
\* state, the sourceEntry object of the job (shared by every listener of
\* the event) and the packages whose source database holds that object.
RECURSIVE IngestReferences(_, _, _, _)
IngestReferences(w, p, refs, i) ==
    IF i > Len(refs) THEN w
    ELSE LET r == PathRelative(RootPath, refs[i])
             src == w.entry.relativePath
             db0 == w.st.sdb[p]
             db1 == IF DbHas(db0, r) THEN db0 ELSE DbInsert(db0, SourceCreate(w.st, r))
             ref == DbQuery(db1, r)
             db2 == DbPoke(db1, r, [ref EXCEPT !.references = AddUnique(@, src)])
             ent == [w.entry EXCEPT !.dependencies = AddUnique(@, r)]
             st1 == [w.st EXCEPT !.sdb[p] = db2]
             st2 == [st1 EXCEPT !.sdb = [q \in Packages |->
                        IF q \in w.held THEN DbPoke(st1.sdb[q], src, ent) ELSE st1.sdb[q]]]
         IN  IngestReferences([w EXCEPT !.st = st2, !.entry = ent], p, refs, i + 1)

RECURSIVE AddOutputs(_, _, _)
AddOutputs(entry, outs, i) ==
    IF i > Len(outs) THEN entry
    ELSE AddOutputs([entry EXCEPT !.outputs = AddUnique(@, PathRelative(RootPath, outs[i]))],
                    outs, i + 1)

\* a handleFileComplete that records the outputs and not the source
TB_HandleFileComplete_TargetOnly(w, b, result) ==
    LET p == w.st.builders[b].pkg
    IN  IF result.success
        THEN LET te == AddOutputs(TargetCreate(w.entry.relativePath), result.outputs, 1)
                 s3 == [w.st EXCEPT !.tdb[p] = DbInsert(@, te)]
             IN  [w EXCEPT !.st = BuilderEmit(s3, b, "success")]
        ELSE [w EXCEPT !.st = BuilderEmit(w.st, b, "error")]

\* a handleFileComplete that stores the source record with the modification
\* time the file has when the result arrives
TB_HandleFileComplete_Restat(w, b, result) ==
    LET p == w.st.builders[b].pkg
        now == [w.entry EXCEPT !.writeTime = w.st.fs.mtime[w.entry.relativePath]]
    IN  IF result.success
        THEN LET w1 == [w EXCEPT !.st.sdb[p] = DbInsert(@, now), !.held = @ \cup {p},
                                 !.entry = now]
                 w2 == IngestReferences(w1, p, result.references, 1)
                 te == AddOutputs(TargetCreate(w.entry.relativePath), result.outputs, 1)
                 s3 == [w2.st EXCEPT !.tdb[p] = DbInsert(@, te)]
             IN  [w2 EXCEPT !.st = BuilderEmit(s3, b, "success")]
        ELSE [w EXCEPT !.st = BuilderEmit(w.st, b, "error")]

\* TargetBuilder.handleFileComplete (listener of the pool's 'complete')
TB_HandleFileComplete(w, b, result) ==
    LET p == w.st.builders[b].pkg
    IN  IF result.success
        THEN LET w1 == [w EXCEPT !.st.sdb[p] = DbInsert(@, w.entry), !.held = @ \cup {p}]
                 w2 == IngestReferences(w1, p, result.references, 1)
                 te == AddOutputs(TargetCreate(w.entry.relativePath), result.outputs, 1)
                 s3 == [w2.st EXCEPT !.tdb[p] = DbInsert(@, te)]
             IN  [w2 EXCEPT !.st = BuilderEmit(s3, b, "success")]
        ELSE [w EXCEPT !.st = BuilderEmit(w.st, b, "error")]

\* CompilerCache.emit for the events TargetBuilders listen to.  Every
\* TargetBuilder ever constructed on the pool is a listener (the
\* constructor attaches them, no builder detaches them), called in order of
\* construction; a listener that throws ends the emit.  Only
\* ProjectBuilder.dispose, which removes every listener of the pool,
\* silences them.
RECURSIVE EmitComplete(_, _, _)
EmitComplete(w, b, result) ==
    IF b > Len(w.st.builders) \/ w.st.thrown \/ ~w.st.pool.listeners THEN w
    ELSE EmitComplete(TB_HandleFileComplete(w, b, result), b + 1, result)

RECURSIVE EmitSkipped(_, _)
EmitSkipped(s, b) ==
    IF b > Len(s.builders) \/ s.thrown \/ ~s.pool.listeners THEN s
    ELSE EmitSkipped(TB_HandleFileSkipped(s, b), b + 1)

RECURSIVE EmitStarted(_, _)
EmitStarted(s, b) ==
    IF b > Len(s.builders) \/ s.thrown \/ ~s.pool.listeners THEN s
    ELSE EmitStarted(TB_HandleFileStarted(s, b), b + 1)

-----------------------------------------------------------------------------
(* lib/monitor.js: Monitor.send *)

\* Monitor.send: a no-op unless the IPC channel is marked usable
MonitorSend(s, m, msg) ==
    IF s.mon[m].canSendIPC
    THEN [s EXCEPT !.child[m].inbox = Append(@, msg),
                   !.hist.sent[m] = IF @ = <<>> \/ (msg.type = BUILD_REQUEST /\ ~s.mon[m].hasQueue)
                                    THEN Append(@, msg.type) ELSE @]
    ELSE s

-----------------------------------------------------------------------------
(* lib/compiler.js: JobQueue and CompilerCache *)

Event(ev, job) == [ev |-> ev, run |-> job.run, file |-> job.file]

\* a faulty handleQueueExecute: the request leaves before 'started' is emitted
HandleQueueExecute_SendFirst(s, m, task) ==
    LET s1 == MonitorSend([s EXCEPT !.log[m] = Append(@, Event("send", task))],
                          m, Msg(BUILD_REQUEST, task, FALSE, <<>>, <<>>))
    IN  EmitStarted([s1 EXCEPT !.log[m] = Append(@, Event("started", task))], 1)

\* CompilerCache.handleQueueExecute: emit 'started', then send BUILD_REQUEST
HandleQueueExecute(s, m, task) ==
    LET s1 == EmitStarted([s EXCEPT !.log[m] = Append(@, Event("started", task))], 1)
    IN  IF s1.thrown THEN s1
        ELSE MonitorSend([s1 EXCEPT !.log[m] = Append(@, Event("send", task))],
                         m, Msg(BUILD_REQUEST, task, FALSE, <<>>, <<>>))

\* a faulty front: the most recently submitted job
JobQueueFront_Newest(s, m) == s.queue[m][Len(s.queue[m])]

\* JobQueue.front (of a queue that is not empty)
JobQueueFront(s, m) == s.queue[m][1]

\* a faulty submit: every submitted job is executed at once
JobQueueSubmit_Eager(s, m, job) ==
    HandleQueueExecute([s EXCEPT !.queue[m] = Append(@, job),
                                 !.hist.submitted[m] = Append(@, Event("submit", job))],
                       m, job)

\* JobQueue.submit
JobQueueSubmit(s, m, job) ==
    LET s1 == [s EXCEPT !.queue[m] = Append(@, job),
                        !.hist.submitted[m] = Append(@, Event("submit", job))]
    IN  IF 1 = Len(s1.queue[m]) THEN HandleQueueExecute(s1, m, job) ELSE s1

\* JobQueue.complete ('drain' has an empty listener)
JobQueueComplete(s, m) ==
    LET s1 == [s EXCEPT !.queue[m] = Tail(@)]
    IN  IF Len(s1.queue[m]) > 0 THEN HandleQueueExecute(s1, m, s1.queue[m][1]) ELSE s1

\* CompilerCache.emit('terminated'); the listener attached by
\* ProjectBuilder.loadProject (handleCompilersTerminated) emits 'disposed'
EmitTerminated(s) ==
    [s EXCEPT !.hist.terminated = @ + 1,
              !.hist.disposed = IF s.pool.listeners THEN @ + 1 ELSE @,
              !.hist.terminatedAfterShutdown = IF s.hist.shutdowns > 0 THEN @ + 1 ELSE @,
              !.hist.aliveAtTerminated =
                  IF s.hist.shutdowns > 0 THEN @ \cup {k \in Keys : s.child[k].alive} ELSE @]

\* CompilerCache.handleMonitorError: the pool re-emits 'error', which the
\* listener attached by ProjectBuilder.loadProject re-emits in turn
HandleMonitorError(s, m) ==
    [s EXCEPT !.hist.poolErrors = @ + 1]

\* a faulty handleMonitorStart: 'ready' without looking at waitCount
HandleMonitorStart_ReadyAtOnce(s, m) ==
    LET s1 == [s EXCEPT !.pool.childProcessCount = @ + 1,
                        !.queue[m] = <<>>,
                        !.mon[m].hasQueue = TRUE,
                        !.mon[m].version = 0]
        s2 == MonitorSend(s1, m, Msg(VERSION_QUERY, NoJob, FALSE, <<>>, <<>>))
    IN  [s2 EXCEPT !.pool.waitCount = @ - 1, !.hist.ready = @ + 1]

\* CompilerCache.handleMonitorStart
HandleMonitorStart(s, m) ==
    LET s1 == [s EXCEPT !.pool.childProcessCount = @ + 1,
                        !.queue[m] = <<>>,
                        !.mon[m].hasQueue = TRUE,
                        !.mon[m].version = 0]
        s2 == MonitorSend(s1, m, Msg(VERSION_QUERY, NoJob, FALSE, <<>>, <<>>))
        s3 == [s2 EXCEPT !.pool.waitCount = @ - 1]
    IN  IF 0 = s3.pool.waitCount THEN [s3 EXCEPT !.hist.ready = @ + 1] ELSE s3

\* CompilerCache.handleMonitorRestart
HandleMonitorRestart(s, m) == s

\* history: no 'complete' has been emitted yet
NoComplete ==
    [run |-> 0, file |-> "", pkg |-> "", success |-> FALSE, heard |-> FALSE,
     references |-> <<>>, outputs |-> <<>>, thrown |-> FALSE,
     before |-> [sdb |-> <<>>, tdb |-> <<>>, counts |-> <<>>, expect |-> <<>>],
     after |-> [sdb |-> <<>>, tdb |-> <<>>, counts |-> <<>>, expect |-> <<>>]]

\* history: the events every run still waits for, and whether it finished
Expected(s) ==
    [b \in 1..Len(s.builders) |->
        [expect |-> s.builders[b].expect, finished |-> s.builders[b].finished]]

\* history: the counters of every run
Counters(s) ==
    [b \in 1..Len(s.builders) |->
        [errors |-> s.builders[b].errors, success |-> s.builders[b].success,
         skipped |-> s.builders[b].skipped]]

\* The state after the listeners of 'complete' have run: the job leaves the
\* queue unless a listener threw.  hist.lastComplete keeps the event and
\* the databases and counters before (s) and after (st) its handling.
Emitted(s, st, m, task, msg) ==
    LET done == [run |-> task.run, file |-> task.file, pkg |-> s.builders[task.run].pkg,
                 success |-> msg.success, heard |-> s.pool.listeners,
                 references |-> msg.references, outputs |-> msg.outputs,
                 thrown |-> st.thrown,
                 before |-> [sdb |-> s.sdb, tdb |-> s.tdb,
                             counts |-> Counters(s), expect |-> Expected(s)],
                 after |-> [sdb |-> st.sdb, tdb |-> st.tdb,
                            counts |-> Counters(st), expect |-> Expected(st)]]
        failed == IF msg.success THEN {} ELSE {<<task.run, task.file>>}
        late == IF ~(msg.success /\ s.pool.listeners) THEN s.hist.lateFiles
                ELSE IF s.fs.mtime[task.file] # s.builders[task.run].enumerated[task.file]
                THEN s.hist.lateFiles \cup {task.file}
                ELSE s.hist.lateFiles \ {task.file}
    IN  IF st.thrown THEN [st EXCEPT !.hist.lastComplete = done]
        ELSE JobQueueComplete([st EXCEPT !.hist.lastComplete = done,
                                         !.hist.failedJobs = @ \cup failed,
                                         !.hist.lateFiles = late], m)

\* CompilerCache.handleMonitorMessage
HandleMonitorMessage(s, m, msg) ==
    CASE msg.type = VERSION_DATA -> [s EXCEPT !.mon[m].version = 1]
      [] msg.type = BUILD_RESULT ->
            IF s.queue[m] = <<>> THEN Throw(s)     \* task is null: task.input
            ELSE LET task == JobQueueFront(s, m)
                     s1 == [s EXCEPT !.log[m] = Append(@, Event("complete", task))]
                     w == EmitComplete([st |-> s1, entry |-> task.entry, held |-> {}], 1, msg)
                 IN  Emitted(s, w.st, m, task, msg)
      [] OTHER -> s

\* a handler of 'exit' that forgets the launch key and keeps the routes
HandleMonitorExit_KeepRoutes(s, m) ==
    LET s1 == [s EXCEPT !.pool.childProcessCount = @ - 1,
                        !.pool.pathTable = @ \ {m}]
    IN  IF 0 = s1.pool.childProcessCount
        THEN EmitTerminated(s1)
        ELSE s1

\* CompilerCache.handleMonitorExit
HandleMonitorExit(s, m) ==
    LET s1 == [s EXCEPT !.pool.childProcessCount = @ - 1,
                        !.pool.compilers = [r \in RouteSet |->
                            IF r \in Range(s.mon[m].types) THEN NoKey ELSE @[r]],
                        !.pool.pathTable = @ \ {m}]
    IN  IF 0 = s1.pool.childProcessCount
        THEN EmitTerminated(s1)
        ELSE s1

\* a lookup that prefers the plain type route
FindCompiler_TypeFirst(s, resourceType, platformName) ==
    LET platform == IF platformName = <<>> THEN GENERIC_PLATFORM ELSE platformName
        name1 == resourceType \o <<".">> \o platform
        name2 == resourceType
        dc == IF name2 \in DOMAIN s.pool.compilers THEN s.pool.compilers[name2] ELSE NoKey
    IN  IF dc # NoKey THEN dc
        ELSE IF name1 \in DOMAIN s.pool.compilers THEN s.pool.compilers[name1] ELSE NoKey

\* CompilerCache.findCompiler
FindCompiler(s, resourceType, platformName) ==
    LET platform == IF platformName = <<>> THEN GENERIC_PLATFORM ELSE platformName
        name1 == resourceType \o <<".">> \o platform
        name2 == resourceType
        dc == IF name1 \in DOMAIN s.pool.compilers THEN s.pool.compilers[name1] ELSE NoKey
    IN  IF dc # NoKey THEN dc
        ELSE IF name2 \in DOMAIN s.pool.compilers THEN s.pool.compilers[name2] ELSE NoKey

\* the text CompilerCache.build puts before the resource type in a reason
NoCompilerReason == <<"No data compiler for resource type ">>

\* CompilerCache.build
Build(s, job) ==
    LET compiler == FindCompiler(s, ResourceType[job.file], Platform[job.file])
    IN  IF compiler # NoKey
        THEN IF ~s.mon[compiler].hasQueue            \* workQueue is undefined
             THEN Throw([s EXCEPT !.hist.failedBuilds = @ \cup {<<job.run, job.file>>}])
             ELSE JobQueueSubmit(s, compiler, job)
        ELSE EmitSkipped([s EXCEPT !.hist.poolSkipped = @ \cup {<<job.run, job.file>>},
                                   !.hist.skipReasons = @ \cup
                                       {NoCompilerReason \o ResourceType[job.file]}], 1)

-----------------------------------------------------------------------------
(* lib/monitor.js: Monitor *)

NewMonitor(maxRestartCount, key) ==
    [created |-> TRUE, isRunning |-> FALSE, forceExit |-> FALSE, canSendIPC |-> FALSE,
     startCount |-> 0, maxRestartCount |-> maxRestartCount, types |-> <<key>>,
     hasChild |-> FALSE, hasQueue |-> FALSE, version |-> 0]

NoMonitor == [NewMonitor(0, <<>>) EXCEPT !.created = FALSE, !.types = <<>>]

NoChild == [alive |-> FALSE, connected |-> FALSE, signalled |-> FALSE,
            inbox |-> <<>>, outbox |-> <<>>]

NewChild == [NoChild EXCEPT !.alive = TRUE, !.connected = TRUE]

\* EventEmitter.emit on a Monitor; ctx is the call stack the emit runs in.
\* The listeners are the CompilerCache handlers attached in startup.
MonitorEmit(s, m, ev, ctx, msg) ==
    LET s1 == [s EXCEPT !.mlog[m] = Append(@, <<ev, ctx>>)]
    IN  CASE ev = "start"   -> HandleMonitorStart(s1, m)
          [] ev = "restart" -> HandleMonitorRestart(s1, m)
          [] ev = "message" -> HandleMonitorMessage(s1, m, msg)
          [] ev = "exit"    ->
                HandleMonitorExit([s1 EXCEPT !.hist.exitedAt[m] = Len(s.hist.submitted[m])], m)
          [] ev = "error"   -> HandleMonitorError(s1, m)
          [] OTHER          -> s1

NextTick(s, fn, m) == [s EXCEPT !.ticks = Append(@, [fn |-> fn, m |-> m])]

\* a faulty onChildExit: the child is restarted whatever forceExit says
OnChildExit_Restart(s, m) ==
    NextTick([s EXCEPT !.mon[m].isRunning = FALSE, !.mon[m].forceExit = FALSE,
                       !.mon[m].canSendIPC = FALSE], "restartChildProcess", m)

\* Monitor.onChildExit
OnChildExit(s, m) ==
    IF s.mon[m].forceExit
    THEN NextTick([s EXCEPT !.mon[m].isRunning = FALSE, !.mon[m].forceExit = FALSE,
                            !.mon[m].canSendIPC = FALSE], "letChildProcessDie", m)
    ELSE NextTick([s EXCEPT !.mon[m].isRunning = FALSE, !.mon[m].forceExit = FALSE,
                            !.mon[m].canSendIPC = FALSE], "restartChildProcess", m)

\* a faulty start: 'start' / 'restart' are emitted before start() returns
MonitorStart_Inline(s, m, isRestart) ==
    IF s.mon[m].isRunning \/ s.mon[m].forceExit THEN s
    ELSE LET s1 == IF isRestart = FALSE
                   THEN [s EXCEPT !.mon[m].startCount = 0, !.hist.restarts[m] = 0]
                   ELSE s
         IN  IF /\ isRestart
                /\ s1.mon[m].maxRestartCount > 0
                /\ s1.mon[m].startCount >= s1.mon[m].maxRestartCount
             THEN MonitorEmit([s1 EXCEPT !.hist.capExit = @ \cup {m}], m, "exit", "start", NoJob)
             ELSE MonitorEmit([s1 EXCEPT !.child[m] = NewChild,
                                         !.mon[m].hasChild = TRUE,
                                         !.mon[m].isRunning = TRUE,
                                         !.mon[m].canSendIPC = TRUE,
                                         !.mon[m].startCount = @ + 1,
                                         !.hist.restarts[m] = IF isRestart THEN @ + 1 ELSE @],
                              m, IF isRestart THEN "restart" ELSE "start", "start", NoJob)

\* Monitor.start
MonitorStart(s, m, isRestart) ==
    IF s.mon[m].isRunning \/ s.mon[m].forceExit THEN s
    ELSE LET s1 == IF isRestart = FALSE
                   THEN [s EXCEPT !.mon[m].startCount = 0, !.hist.restarts[m] = 0]
                   ELSE s
         IN  IF /\ isRestart
                /\ s1.mon[m].maxRestartCount > 0
                /\ s1.mon[m].startCount >= s1.mon[m].maxRestartCount
             THEN MonitorEmit([s1 EXCEPT !.hist.capExit = @ \cup {m}], m, "exit", "start", NoJob)
             ELSE IF m \in s1.worker.broken
             \* fork throws: the catch block queues the 'error' event, then
             \* the function goes on and reads cproc.pid of cproc = null
             THEN Throw(NextTick([s1 EXCEPT !.hist.spawnFailed = @ \cup {m}],
                                 "errorSpawningChildProcess", m))
             ELSE NextTick([s1 EXCEPT !.child[m] = NewChild,
                                      !.hist.spawnedAfterShutdown =
                                          IF s.hist.shutdowns > 0 THEN @ \cup {m} ELSE @,
                                      !.mon[m].hasChild = TRUE,
                                      !.mon[m].isRunning = TRUE,
                                      !.mon[m].canSendIPC = TRUE,
                                      !.mon[m].startCount = @ + 1,
                                      !.hist.restarts[m] = IF isRestart THEN @ + 1 ELSE @],
                           IF isRestart THEN "processRestarted" ELSE "processStarted", m)

\* Monitor.kill
MonitorKill(s, m, allowRestart) ==
    IF ~s.mon[m].hasChild \/ ~s.mon[m].isRunning THEN s
    ELSE MonitorEmit([s EXCEPT !.mon[m].forceExit = ~allowRestart,
                               !.child[m].connected = FALSE,
                               !.child[m].signalled = TRUE,
                               !.mon[m].canSendIPC = FALSE,
                               !.hist.killed = IF allowRestart THEN @ ELSE @ \cup {m}],
                     m, "stop", "kill", NoJob)

-----------------------------------------------------------------------------
(* lib/compiler.js: CompilerCache.startup and shutdown *)

\* Path.join of a directory and a relative path
PathJoin(dir, rel) == dir \o <<"/">> \o rel

\* Path.dirname of an absolute path
RECURSIVE Dirname(_)
Dirname(path) ==
    IF path = <<>> THEN <<".">>
    ELSE IF path[Len(path)] = "/"
         THEN IF Len(path) = 1 THEN path ELSE SubSeq(path, 1, Len(path) - 1)
         ELSE Dirname(SubSeq(path, 1, Len(path) - 1))

\* CompilerCache.buildMonitorConfigKey
BuildMonitorConfigKey(root, config) ==
    LET path == PathJoin(root, config.path)
        args == JoinWith(config.arguments, <<" ">>)
        cwd == IF config.workingDirectory # <<>> THEN config.workingDirectory
               ELSE Dirname(path)
    IN  JoinWith(<<cwd, path, args>>, <<" ">>)

\* the keys of the first i routes of a pipeline definition, in order of first use
RECURSIVE MonitorNames(_, _)
MonitorNames(config, i) ==
    IF i = 0 THEN <<>>
    ELSE LET before == MonitorNames(config, i - 1)
             mck == BuildMonitorConfigKey(ProcessorRoot, config[RouteOrder[i]])
         IN  IF config[RouteOrder[i]] = NoLaunch \/ mck \in Range(before) THEN before
             ELSE Append(before, mck)

\* the pathTable slot of a key: monitors are numbered in order of creation
PathTableSlot(config, mck) ==
    LET names == MonitorNames(config, Len(RouteOrder))
    IN  CHOOSE k \in 1..Len(names) : names[k] = mck

RECURSIVE StartupFrom(_, _, _, _)
StartupFrom(s, config, maxRestartCount, i) ==
    IF i > Len(RouteOrder) THEN s
    ELSE LET key == RouteOrder[i]
             mc == config[key]
             mck == PathTableSlot(config, BuildMonitorConfigKey(ProcessorRoot, mc))
         IN  IF mc = NoLaunch THEN StartupFrom(s, config, maxRestartCount, i + 1)
             ELSE IF mck \in s.pool.pathTable
             THEN StartupFrom([s EXCEPT !.pool.compilers[key] = mck,
                                        !.mon[mck].types = Append(@, key)],
                              config, maxRestartCount, i + 1)
             ELSE StartupFrom(
                      MonitorStart([s EXCEPT !.mon[mck] = NewMonitor(maxRestartCount, key),
                                             !.pool.compilers[key] = mck,
                                             !.pool.pathTable = @ \cup {mck},
                                             !.pool.waitCount = @ + 1],
                                   mck, FALSE),
                      config, maxRestartCount, i + 1)

\* CompilerCache.startup
CompilerCacheStartup(s, config, maxRestartCount) ==
    StartupFrom([s EXCEPT !.hist.startups = @ + 1, !.hist.pipeline = config],
                config, maxRestartCount, 1)

RECURSIVE ShutdownFrom(_, _)
ShutdownFrom(s, todo) ==
    IF todo = {} THEN s
    ELSE LET m == CHOOSE k \in todo : \A j \in todo : k <= j
         IN  ShutdownFrom(MonitorKill(s, m, FALSE), todo \ {m})

\* CompilerCache.shutdown
CompilerCacheShutdown(s) ==
    LET s1 == ShutdownFrom([s EXCEPT !.hist.shutdowns = @ + 1], s.pool.pathTable)
    IN  IF 0 = s1.pool.childProcessCount
        THEN EmitTerminated(s1)
        ELSE s1

\* ProjectBuilder.dispose.  this.compilers is set by loadProject, which
\* creates the pool and starts it up.
ProjectBuilderDispose(s) ==
    LET s1 == [s EXCEPT !.hist.disposeCalls = @ + 1]
    IN  IF s.hist.startups > 0 /\ ~s.hist.disposedPool
        THEN CompilerCacheShutdown([s1 EXCEPT !.pool.listeners = FALSE,
                                              !.hist.disposedPool = TRUE])
        ELSE [s1 EXCEPT !.hist.disposed = @ + 1]

-----------------------------------------------------------------------------
(* lib/project.js: the rebuild decision and PackageBuilder.buildTarget *)

OutputOf == [a |-> "oa", b |-> "ob", c |-> "oc"]

\* TargetBuilder.sourceFileModified
SourceFileModified(s, entry) ==
    IF s.fs.mtime[entry.relativePath] # entry.writeTime THEN TRUE
    ELSE IF s.fs.size[entry.relativePath] # entry.fileSize THEN TRUE
    ELSE FALSE

\* The loop over entry.dependencies of dependenciesModified.  A dependency
\* without a record answers true; for one with a record the code calls
\* e.dependenciesModified(bundle, e), which is not a function of a database
\* record (and bundle is not declared): the exception is caught by the
\* enclosing try and the function answers true.
RECURSIVE DependencyLoop(_, _, _, _)
DependencyLoop(s, p, entry, i) ==
    IF i > Len(entry.dependencies) THEN FALSE
    ELSE IF ~DbHas(s.sdb[p], entry.dependencies[i]) THEN TRUE
    ELSE TRUE

\* TargetBuilder.dependenciesModified
DependenciesModified(s, p, entry) ==
    IF SourceFileModified(s, entry) THEN TRUE
    ELSE DependencyLoop(s, p, entry, 1)

\* TargetBuilder.buildOutputsExist
BuildOutputsExist(s, p, targetPath) ==
    IF DbHas(s.tdb[p], targetPath)
    THEN \A o \in Range(DbQuery(s.tdb[p], targetPath).outputs) : Absolute(o) \in s.fs.outputs
    ELSE TRUE

\* TargetBuilder.requiresRebuild
RequiresRebuild(s, p, entry, targetPath) ==
    IF DependenciesModified(s, p, entry) THEN TRUE
    ELSE IF BuildOutputsExist(s, p, targetPath) = FALSE THEN TRUE
    ELSE FALSE

\* TargetBuilder.determineSourceFiles: one candidate per file of the
\* package source tree, with a fresh (not inserted) source record
DetermineSourceFiles(s, p) ==
    [i \in 1..Len(SourceTree[p]) |-> SourceCreate(s, SourceTree[p][i])]

\* TargetBuilder.determineBuildFiles; w carries the state and buildFiles
RECURSIVE DetermineBuildFiles(_, _, _, _)
DetermineBuildFiles(w, b, sourceFiles, index) ==
    IF index > Len(sourceFiles) THEN w
    ELSE LET info == sourceFiles[index]
             p == w.st.builders[b].pkg
             f == info.relativePath
         IN  IF /\ DbHas(w.st.sdb[p], f)
                /\ RequiresRebuild(w.st, p, DbQuery(w.st.sdb[p], f), TargetPathFor[f]) = FALSE
             THEN DetermineBuildFiles([w EXCEPT !.st = SkipSourceFile(w.st, b)],
                                      b, sourceFiles, index + 1)
             ELSE DetermineBuildFiles([w EXCEPT !.buildFiles = Append(@, info),
                                                !.st.builders[b].marked = @ \cup {f}],
                                      b, sourceFiles, index + 1)

\* TargetBuilder.rebuildFiles
RECURSIVE RebuildFiles(_, _, _, _)
RebuildFiles(s, b, buildFiles, index) ==
    IF index > Len(buildFiles) \/ s.thrown THEN s
    ELSE RebuildFiles(
             Build([s EXCEPT !.builders[b].dispatched = @ \cup {buildFiles[index].relativePath}],
                   [run |-> b, file |-> buildFiles[index].relativePath,
                    entry |-> buildFiles[index]]),
             b, buildFiles, index + 1)

\* the pairs <<s, r>> of source files of which the record of s names r as a
\* dependency while r's file is newer than r's record
StaleDeps(s, p) ==
    { sr \in Files \X Files :
          /\ DbHas(s.sdb[p], sr[1]) /\ DbHas(s.sdb[p], sr[2])
          /\ sr[2] \in Range(DbQuery(s.sdb[p], sr[1]).dependencies)
          /\ DbQuery(s.sdb[p], sr[2]).writeTime # s.fs.mtime[sr[2]] }

\* the file f has a record that agrees with the file on disk, and so has
\* every file its record depends on, transitively
RECURSIVE Unchanged(_, _, _, _)
Unchanged(s, p, f, seen) ==
    /\ DbHas(s.sdb[p], f)
    /\ DbQuery(s.sdb[p], f).writeTime = s.fs.mtime[f]
    /\ DbQuery(s.sdb[p], f).fileSize = s.fs.size[f]
    /\ \A d \in Range(DbQuery(s.sdb[p], f).dependencies) \ seen :
           Unchanged(s, p, d, seen \cup {f})

\* the candidates of a run that nothing obliges to build again
UpToDate(s, p) ==
    { f \in Range(SourceTree[p]) :
          /\ Unchanged(s, p, f, {})
          /\ DbHas(s.tdb[p], TargetPathFor[f]) =>
                 \A o \in Range(DbQuery(s.tdb[p], TargetPathFor[f]).outputs) :
                     Absolute(o) \in s.fs.outputs }

\* A PackageBuilder with its TargetBuilder.  The last fields are history:
\* the jobs handed to the pool, the modifications of the source tree seen
\* so far, whether this run repeats a complete build of the same package on
\* an unchanged tree, the save/manifest counts at its start, and the stale
\* dependencies at the start of a run that begins when no other run is
\* under way.
NewBuilder(s, p) ==
    [pkg |-> p, expect |-> 0, errors |-> 0, success |-> 0, skipped |-> 0,
     started |-> FALSE, listening |-> TRUE, finished |-> 0, finishSuccess |-> FALSE,
     dispatched |-> {}, touches |-> s.hist.touches,
     repeat |-> /\ \A b0 \in 1..Len(s.builders) : s.builders[b0].finished = 1
                /\ \E b0 \in 1..Len(s.builders) :
                       /\ s.builders[b0].pkg = p
                       /\ s.builders[b0].errors = 0
                       /\ s.builders[b0].touches = s.hist.touches,
     savesAtStart |-> s.sdb[p].saves + s.tdb[p].saves,
     manifestAtStart |-> s.fs.manifestWrites[p],
     upToDate |-> UpToDate(s, p), marked |-> {}, enumerated |-> s.fs.mtime,
     lateAtStart |-> s.hist.lateFiles \cap Range(SourceTree[p]),
     alone |-> \A b0 \in 1..Len(s.builders) : s.builders[b0].finished = 1,
     staleDeps |-> IF \A b0 \in 1..Len(s.builders) : s.builders[b0].finished = 1
                   THEN StaleDeps(s, p) ELSE {}]

\* Package.targetPlatform / Target.create: the databases are loaded when
\* the Target of the package is first asked for
TargetPlatform(s, p) ==
    IF s.sdb[p].loaded THEN s
    ELSE LET sload == SourceLoad(NewDatabase, s.fs.sourceDb[p])
             tload == TargetLoad(NewDatabase, s.fs.targetDb[p])
             sdb0 == IF s.fs.sourceDb[p].exists
                     THEN [sload.db EXCEPT !.loaded = TRUE] ELSE LoadDatabase
             tdb0 == IF s.fs.targetDb[p].exists
                     THEN [tload.db EXCEPT !.loaded = TRUE] ELSE LoadDatabase
         IN  IF \/ s.fs.sourceDb[p].exists /\ sload.thrown
                \/ s.fs.targetDb[p].exists /\ tload.thrown
             THEN Throw(s)
             ELSE
             [s EXCEPT !.sdb[p] = [sdb0 EXCEPT !.bundleName = p],
                       !.tdb[p] = [tdb0 EXCEPT !.bundleName = p,
                                               !.platform = PlatformP]]

\* PackageBuilder.buildTarget
BuildTarget(s, p) ==
    LET s1 == TargetPlatform(s, p)
        b == Len(s.builders) + 1
        s2 == [s1 EXCEPT !.builders = Append(@, NewBuilder(s, p))]
        sourceFiles == DetermineSourceFiles(s2, p)
        w == DetermineBuildFiles([st |-> s2, buildFiles |-> <<>>], b, sourceFiles, 1)
        s3 == [w.st EXCEPT !.builders[b].expect = Len(w.buildFiles),
                           !.builders[b].started = TRUE]
        s4 == RebuildFiles(s3, b, w.buildFiles, 1)
    IN  IF s4.thrown THEN s4
        ELSE IF 0 = Len(w.buildFiles) THEN TargetComplete(s4, b)
        ELSE s4

-----------------------------------------------------------------------------
(* The worker program run by a child process *)

\* the answer of a worker to one message; a build writes its output file
WorkerAnswer(s, m, msg) ==
    IF msg.type = VERSION_QUERY
    THEN [st |-> s, reply |-> Msg(VERSION_DATA, NoJob, FALSE, <<>>, <<>>)]
    ELSE LET f == msg.job.file
             ok == f \notin s.worker.failing
             out == Absolute(OutputOf[f])
             refs == s.worker.references[f]
         IN  [st |-> IF ok THEN [s EXCEPT !.fs.outputs = @ \cup {out}] ELSE s,
              reply |-> Msg(BUILD_RESULT, msg.job, ok,
                            IF ok THEN [i \in 1..Len(refs) |-> Absolute(refs[i])] ELSE <<>>,
                            IF ~ok THEN <<>>
                            ELSE IF f \in s.worker.twice THEN <<out, out>> ELSE <<out>>)]

-----------------------------------------------------------------------------
(* Initial state: the objects as constructed, an unbuilt project on disk *)

\* failing: the files a worker reports as failed; references: what a
\* successful build reports; twice: the files whose output a successful
\* build reports twice; broken: the launch identities that cannot be forked
WorkerPrograms ==
    { [failing |-> {}, references |-> [a |-> <<>>, b |-> <<>>, c |-> <<>>],
       twice |-> {}, broken |-> {}],
      [failing |-> {}, references |-> [a |-> <<"b">>, b |-> <<>>, c |-> <<>>],
       twice |-> {"a"}, broken |-> {}],
      [failing |-> {"a"}, references |-> [a |-> <<>>, b |-> <<>>, c |-> <<>>],
       twice |-> {}, broken |-> {}] }

\* worker programs of which some cannot be forked
BrokenPrograms ==
    { [failing |-> {}, references |-> [a |-> <<>>, b |-> <<>>, c |-> <<>>],
       twice |-> {}, broken |-> bad] :
          bad \in SUBSET Keys }

InitWith(programs, sources, walks) ==
    /\ mon = [m \in Keys |-> NoMonitor]
    /\ child = [m \in Keys |-> NoChild]
    /\ ticks = <<>>
    /\ pool = [compilers |-> [r \in RouteSet |-> NoKey], pathTable |-> {},
               waitCount |-> 0, childProcessCount |-> 0, listeners |-> TRUE]
    /\ queue = [m \in Keys |-> <<>>]
    /\ builders = <<>>
    /\ sdb \in sources
    /\ tdb = [p \in Packages |-> NewDatabase]
    /\ fs = [mtime |-> [f \in Files |-> 0], size |-> [f \in Files |-> 1],
             outputs |-> {}, manifest |-> [p \in Packages |-> FALSE],
             manifestWrites |-> [p \in Packages |-> 0],
             sourceDb |-> [p \in Packages |-> NoFile],
             targetDb |-> [p \in Packages |-> NoFile]]
    /\ worker \in programs
    /\ log = [m \in Keys |-> <<>>]
    /\ mlog = [m \in Keys |-> <<>>]
    /\ hist = [ready |-> 0, terminated |-> 0, terminatedAfterShutdown |-> 0,
               aliveAtTerminated |-> {},
               startups |-> 0, shutdowns |-> 0, crashes |-> 0, touches |-> 0,
               submitted |-> [m \in Keys |-> <<>>], poolSkipped |-> {},
               restarts |-> [m \in Keys |-> 0], capExit |-> {}, killed |-> {},
               crashedOnBuild |-> {}, disposed |-> 0, disposeCalls |-> 0,
               disposedPool |-> FALSE, poolErrors |-> 0, spawnFailed |-> {},
               pipeline |-> PipelineDef(NoLaunch, NoLaunch, NoLaunch),
               skipReasons |-> {}, dbOps |-> 0,
               lastOp |-> [op |-> "", db |-> "", changed |-> FALSE],
               savedDb |-> NewDatabase, cleanDb |-> <<>>,
               lastComplete |-> NoComplete,
               sent |-> [m \in Keys |-> <<>>], failedBuilds |-> {},
               spawnedAfterShutdown |-> {}, repeats |-> 0,
               exitedAt |-> [m \in Keys |-> -1], failedJobs |-> {}, lateFiles |-> {}]
    /\ walk \in walks
    /\ halted = FALSE

\* no database exists before the first build
NoDatabases == { [p \in Packages |-> NewDatabase] }

Init == InitWith(WorkerPrograms, NoDatabases, {NoWalk})

\* worker programs that fail on a file which another file refers to
FailingPrograms ==
    { [failing |-> {"a"}, references |-> [a |-> <<>>, b |-> refs, c |-> <<>>],
       twice |-> {}, broken |-> {}] :
          refs \in { <<>>, <<"a">> } }

InitFailing == InitWith(FailingPrograms, NoDatabases, {NoWalk})

\* a pipeline of which some compilers cannot be forked
InitSpawn == InitWith(BrokenPrograms, NoDatabases, {NoWalk})

\* the package whose databases a client of lib/database.js works on
DbPackage == "P"

\* SourceDatabase.create for a file with a given modification time
SourceEntry(f, writeTime) ==
    [relativePath |-> f, writeTime |-> writeTime, fileSize |-> 1,
     references |-> <<>>, dependencies |-> <<>>]

\* a source database that holds every file of the tree
FullSourceDatabase ==
    DbInsert(DbInsert(DbInsert(NewDatabase, SourceEntry("a", 1)), SourceEntry("b", 1)),
             SourceEntry("c", 1))

\* a client starts with an empty source database or with a full one
InitDb ==
    InitWith(WorkerPrograms,
             { [p \in Packages |-> IF p = DbPackage THEN d ELSE NewDatabase] :
                   d \in {NewDatabase, [FullSourceDatabase EXCEPT !.bundleName = DbPackage]} },
             {NoWalk})

-----------------------------------------------------------------------------
(* Actions *)

\* the client creates the pool from a pipeline definition
Startup ==
    /\ ~halted
    /\ hist.startups = 0
    /\ \E config \in PipelineConfigs, maxRestartCount \in 0..MaxRestartCfg :
           Commit(CompilerCacheStartup(Cur, config, maxRestartCount))

\* the client creates the pool from a pipeline definition that may hold
\* platform routes and launch lines that differ only in how they are split
StartupRoutes ==
    /\ ~halted
    /\ hist.startups = 0
    /\ \E config \in RouteConfigs, maxRestartCount \in 0..MaxRestartCfg :
           Commit(CompilerCacheStartup(Cur, config, maxRestartCount))

\* a TargetBuilder for some target platform starts on some source tree
InitWalk ==
    InitWith(WorkerPrograms, NoDatabases,
             { [NoWalk EXCEPT !.tree = tree, !.target = target] :
                   tree \in { o \in TreeOrders(MaxTree) :
                                 \A i, j \in 1..Len(o) : i # j => o[i] # o[j] },
                   target \in {GENERIC_PLATFORM, PlatformP, PlatformQ} })

\* walkTree reports the next file of the tree to checkSourceFile
WalkTree ==
    /\ ~halted
    /\ walk.index < Len(walk.tree)
    /\ Commit([Cur EXCEPT !.walk = [CheckSourceFile(walk, walk.tree[walk.index + 1])
                                       EXCEPT !.index = @ + 1]])

\* a client of lib/database.js works on one database object per behaviour
DbGuard(kind) ==
    /\ ~halted
    /\ hist.dbOps < MaxDbOps
    /\ hist.lastOp.db \in {"", kind}

DbOp(s, op, kind, changed) ==
    [s EXCEPT !.hist.dbOps = @ + 1,
              !.hist.lastOp = [op |-> op, db |-> kind, changed |-> changed]]

SourceInsert ==
    /\ DbGuard("source")
    /\ \E f \in Files, writeTime \in 1..2 :
           Commit(DbOp([Cur EXCEPT !.sdb[DbPackage] = DbInsert(@, SourceEntry(f, writeTime))],
                       "insert", "source", TRUE))

SourceRemove ==
    /\ DbGuard("source")
    /\ \E f \in Files :
           Commit(DbOp([Cur EXCEPT !.sdb[DbPackage] = DbRemove(@, f)],
                       "remove", "source", DbHas(sdb[DbPackage], f)))

SourceSave ==
    /\ DbGuard("source")
    /\ Commit(DbOp([Cur EXCEPT !.sdb[DbPackage] = DbSave(@),
                               !.fs.sourceDb[DbPackage] = SourceStringify(sdb[DbPackage]),
                               !.hist.savedDb = sdb[DbPackage],
                               !.hist.cleanDb = sdb[DbPackage].entries],
                   "save", "source", TRUE))

SourceLoadFile ==
    /\ DbGuard("source")
    /\ fs.sourceDb[DbPackage].exists
    /\ LET w == SourceLoad(sdb[DbPackage], fs.sourceDb[DbPackage])
       IN  Commit(DbOp([Cur EXCEPT !.sdb[DbPackage] = w.db, !.thrown = w.thrown,
                                   !.hist.cleanDb = w.db.entries],
                       "load", "source", TRUE))

TargetInsert ==
    /\ DbGuard("target")
    /\ \E f \in Files, withOutput \in BOOLEAN :
           LET outputs == IF withOutput THEN <<TargetPathFor[f]>> ELSE <<>>
           IN
           Commit(DbOp([Cur EXCEPT !.tdb[DbPackage] =
                                       DbInsert(@, [TargetCreate(f) EXCEPT !.outputs = outputs])],
                       "insert", "target", TRUE))

TargetRemove ==
    /\ DbGuard("target")
    /\ \E f \in Files :
           Commit(DbOp([Cur EXCEPT !.tdb[DbPackage] = DbRemove(@, TargetPathFor[f])],
                       "remove", "target", DbHas(tdb[DbPackage], TargetPathFor[f])))

TargetSave ==
    /\ DbGuard("target")
    /\ Commit(DbOp([Cur EXCEPT !.tdb[DbPackage] = DbSave(@),
                               !.fs.targetDb[DbPackage] = TargetStringify(tdb[DbPackage]),
                               !.hist.savedDb = tdb[DbPackage],
                               !.hist.cleanDb = tdb[DbPackage].entries],
                   "save", "target", TRUE))

TargetLoadFile ==
    /\ DbGuard("target")
    /\ fs.targetDb[DbPackage].exists
    /\ LET w == TargetLoad(tdb[DbPackage], fs.targetDb[DbPackage])
       IN  Commit(DbOp([Cur EXCEPT !.tdb[DbPackage] = w.db, !.thrown = w.thrown,
                                   !.hist.cleanDb = w.db.entries],
                       "load", "target", TRUE))

\* the files a client names in addReference, addDependency and addOutput
LinkedFiles == {"b"}

\* SourceDatabase.addReference on the record the database holds for f
SourceAddReference ==
    /\ DbGuard("source")
    /\ \E f \in Files, g \in LinkedFiles :
           /\ DbQuery(sdb[DbPackage], f) # Hole
           /\ LET entry == DbQuery(sdb[DbPackage], f)
                  relPath == PathRelative(RootPath, Absolute(g))
              IN  Commit(DbOp([Cur EXCEPT !.sdb[DbPackage] =
                                   DbPoke(@, f, [entry EXCEPT !.references = AddUnique(@, relPath)])],
                              "addReference", "source", relPath \notin Range(entry.references)))

\* SourceDatabase.addDependency on the record the database holds for f
SourceAddDependency ==
    /\ DbGuard("source")
    /\ \E f \in Files, g \in LinkedFiles :
           /\ DbQuery(sdb[DbPackage], f) # Hole
           /\ LET entry == DbQuery(sdb[DbPackage], f)
                  relPath == PathRelative(RootPath, Absolute(g))
              IN  Commit(DbOp([Cur EXCEPT !.sdb[DbPackage] =
                                   DbPoke(@, f, [entry EXCEPT !.dependencies = AddUnique(@, relPath)])],
                              "addDependency", "source", relPath \notin Range(entry.dependencies)))

\* TargetDatabase.addOutput on the record the database holds for the target of f
TargetAddOutput ==
    /\ DbGuard("target")
    /\ \E f \in Files, g \in LinkedFiles :
           /\ DbQuery(tdb[DbPackage], TargetPathFor[f]) # Hole
           /\ LET entry == DbQuery(tdb[DbPackage], TargetPathFor[f])
                  relPath == PathRelative(RootPath, Absolute(OutputOf[g]))
              IN  Commit(DbOp([Cur EXCEPT !.tdb[DbPackage] =
                                   DbPoke(@, TargetPathFor[f],
                                          [entry EXCEPT !.outputs = AddUnique(@, relPath)])],
                              "addOutput", "target", relPath \notin Range(entry.outputs)))

\* the client asks the pool to shut down (once, as ProjectBuilder.dispose does)
Shutdown ==
    /\ ~halted
    /\ hist.startups > 0
    /\ hist.shutdowns = 0
    /\ Commit(CompilerCacheShutdown(Cur))

\* the client starts the build of a package (of a project not disposed of)
StartBuild ==
    /\ ~halted
    /\ hist.startups > 0
    /\ ~hist.disposedPool
    /\ Len(builders) < MaxRuns
    /\ \E p \in Packages : Commit(BuildTarget(Cur, p))

\* the client disposes of the ProjectBuilder (once)
Dispose ==
    /\ ~halted
    /\ hist.disposeCalls = 0
    /\ hist.shutdowns = 0
    /\ Commit(ProjectBuilderDispose(Cur))

\* the event loop runs the next process.nextTick callback
Tick ==
    /\ ~halted
    /\ ticks # <<>>
    /\ LET t == Head(ticks)
           s == [Cur EXCEPT !.ticks = Tail(@)]
       IN  Commit(CASE t.fn = "processStarted"      -> MonitorEmit(s, t.m, "start", "tick", NoJob)
                    [] t.fn = "processRestarted"    -> MonitorEmit(s, t.m, "restart", "tick", NoJob)
                    [] t.fn = "letChildProcessDie"  -> MonitorEmit(s, t.m, "exit", "tick", NoJob)
                    [] t.fn = "restartChildProcess" -> MonitorStart(s, t.m, TRUE)
                    [] t.fn = "errorSpawningChildProcess" ->
                                                       MonitorEmit(s, t.m, "error", "tick", NoJob))

\* a worker process handles the next message of its IPC channel
WorkerStep(m) ==
    /\ ~halted
    /\ child[m].alive /\ ~child[m].signalled
    /\ child[m].inbox # <<>>
    /\ LET r == WorkerAnswer(Cur, m, Head(child[m].inbox))
       IN  Commit([r.st EXCEPT !.child[m].inbox = Tail(@),
                               !.child[m].outbox = Append(@, r.reply)])

\* I/O callback: a message of the child arrives (Monitor.onChildMessage)
ChildMessage(m) ==
    /\ ~halted
    /\ ticks = <<>>
    /\ child[m].alive
    /\ child[m].outbox # <<>>
    /\ Commit(MonitorEmit([Cur EXCEPT !.child[m].outbox = Tail(@)],
                          m, "message", "io", Head(child[m].outbox)))

\* I/O callback: the child exited on its own (Monitor.onChildExit)
WorkerCrash(m) ==
    /\ ~halted
    /\ ticks = <<>>
    /\ child[m].alive /\ ~child[m].signalled
    /\ hist.crashes < MaxCrashes
    /\ Commit(OnChildExit([Cur EXCEPT
           !.child[m] = NoChild,
           !.hist.crashes = @ + 1,
           !.hist.crashedOnBuild =
               IF /\ child[m].inbox # <<>>
                  /\ Head(child[m].inbox).type = BUILD_REQUEST
                  /\ Len(log[m]) = 2
               THEN @ \cup {m} ELSE @], m))

\* I/O callback: the child exited after SIGTERM (Monitor.onChildExit)
WorkerExit(m) ==
    /\ ~halted
    /\ ticks = <<>>
    /\ child[m].alive /\ child[m].signalled
    /\ Commit(OnChildExit([Cur EXCEPT !.child[m] = NoChild], m))

\* somebody modifies a source file
Touch(f) ==
    /\ ~halted
    /\ hist.touches < MaxTouch
    /\ fs' = [fs EXCEPT !.mtime[f] = @ + 1]
    /\ hist' = [hist EXCEPT !.touches = @ + 1]
    /\ UNCHANGED <<mon, child, ticks, pool, queue, builders, sdb, tdb, worker,
                   walk, log, mlog, halted>>

\* Pool scenarios: builds, worker faults and shutdown on an unchanging
\* source tree
Next ==
    \/ Startup
    \/ Shutdown
    \/ StartBuild
    \/ Tick
    \/ \E m \in Keys : WorkerStep(m)
    \/ \E m \in Keys : ChildMessage(m)
    \/ \E m \in Keys : WorkerCrash(m)
    \/ \E m \in Keys : WorkerExit(m)

Spec == Init /\ [][Next]_vars

\* the worker answers a BUILD_REQUEST and writes its BUILD_RESULT twice
WorkerAnswerTwice(m) ==
    /\ ~halted
    /\ child[m].alive /\ ~child[m].signalled
    /\ child[m].inbox # <<>>
    /\ Head(child[m].inbox).type = BUILD_REQUEST
    /\ hist.repeats < MaxRepeat
    /\ LET r == WorkerAnswer(Cur, m, Head(child[m].inbox))
       IN  Commit([r.st EXCEPT !.child[m].inbox = Tail(@),
                               !.child[m].outbox = Append(Append(@, r.reply), r.reply),
                               !.hist.repeats = @ + 1])

\* Queue scenarios: builds on workers that may exit unexpectedly
NextQueue ==
    \/ Startup
    \/ StartBuild
    \/ Tick
    \/ \E m \in Keys : WorkerStep(m)
    \/ \E m \in Keys : ChildMessage(m)
    \/ \E m \in Keys : WorkerCrash(m)

SpecQueue == Init /\ [][NextQueue]_vars

\* builds on a worker that may repeat an answer
NextRepeat ==
    \/ NextQueue
    \/ \E m \in Keys : WorkerAnswerTwice(m)

SpecRepeat == Init /\ [][NextRepeat]_vars

\* builds on a worker that fails on a file
NextFailing ==
    \/ Startup
    \/ StartBuild
    \/ Tick
    \/ \E m \in Keys : WorkerStep(m)
    \/ \E m \in Keys : ChildMessage(m)

SpecFailing == InitFailing /\ [][NextFailing]_vars

\* Supervisor scenarios: start, unexpected exits, shutdown
NextMonitor ==
    \/ Startup
    \/ Shutdown
    \/ Tick
    \/ \E m \in Keys : WorkerStep(m)
    \/ \E m \in Keys : ChildMessage(m)
    \/ \E m \in Keys : WorkerCrash(m)
    \/ \E m \in Keys : WorkerExit(m)

SpecMonitor == Init /\ [][NextMonitor]_vars

\* Supervisor scenarios over a pipeline with compilers that cannot be forked
SpecSpawn == InitSpawn /\ [][NextMonitor]_vars

\* Source tree scenarios: a TargetBuilder is told the files of a tree
NextWalk == WalkTree

SpecWalk == InitWalk /\ [][NextWalk]_vars

\* Database scenarios: a client inserts, removes, saves and loads
NextDb ==
    \/ SourceInsert
    \/ SourceRemove
    \/ SourceSave
    \/ SourceLoadFile
    \/ TargetInsert
    \/ TargetRemove
    \/ TargetSave
    \/ TargetLoadFile

SpecDb == InitDb /\ [][NextDb]_vars

\* Database scenarios in which the client also links stored records
NextDbLinks ==
    \/ SourceInsert
    \/ SourceSave
    \/ SourceLoadFile
    \/ SourceAddReference
    \/ SourceAddDependency
    \/ TargetInsert
    \/ TargetSave
    \/ TargetLoadFile
    \/ TargetAddOutput

SpecDbLinks == InitDb /\ [][NextDbLinks]_vars

\* the pool over every kind of pipeline definition, without builds
NextRoutes ==
    \/ StartupRoutes
    \/ Shutdown
    \/ Tick
    \/ \E m \in Keys : WorkerStep(m)
    \/ \E m \in Keys : ChildMessage(m)
    \/ \E m \in Keys : WorkerCrash(m)
    \/ \E m \in Keys : WorkerExit(m)

SpecRoutes == Init /\ [][NextRoutes]_vars

\* Rebuild scenarios: repeated builds with reliable workers while source
\* files are modified
NextBuild ==
    \/ Startup
    \/ StartBuild
    \/ Tick
    \/ \E m \in Keys : WorkerStep(m)
    \/ \E m \in Keys : ChildMessage(m)
    \/ \E f \in Files : Touch(f)

SpecBuild == Init /\ [][NextBuild]_vars

\* the same scenarios on a worker that reports one reference
InitModify ==
    InitWith({ w \in WorkerPrograms : w.failing = {} /\ w.twice # {} }, NoDatabases, {NoWalk})

SpecModify == InitModify /\ [][NextBuild]_vars

\* Project scenarios: a ProjectBuilder loads the project, builds packages
\* and is disposed of
NextProject ==
    \/ Startup
    \/ StartBuild
    \/ Dispose
    \/ Tick
    \/ \E m \in Keys : WorkerStep(m)
    \/ \E m \in Keys : ChildMessage(m)
    \/ \E m \in Keys : WorkerExit(m)

SpecProject == Init /\ [][NextProject]_vars

-----------------------------------------------------------------------------
(* Reading the histories *)

JobId(e) == <<e.run, e.file>>

\* the jobs with an event ev in the log of a Monitor, in order
Events(m, ev) ==
    LET sel == SelectSeq(log[m], LAMBDA e : e.ev = ev)
    IN  [i \in 1..Len(sel) |-> JobId(sel[i])]

Submitted(m) == [i \in 1..Len(hist.submitted[m]) |-> JobId(hist.submitted[m][i])]

QueueIds(m) == [i \in 1..Len(queue[m]) |-> <<queue[m][i].run, queue[m][i].file>>]

\* does the log of Monitor m hold event ev of job j, and where
Has(m, ev, j) == \E k \in 1..Len(log[m]) : log[m][k].ev = ev /\ JobId(log[m][k]) = j

Pos(m, ev, j) == CHOOSE k \in 1..Len(log[m]) : log[m][k].ev = ev /\ JobId(log[m][k]) = j

\* the jobs of Monitor m that were begun: 'started' emitted and the
\* BUILD_REQUEST handed to Monitor.send
Begun(m) == { JobId(e) : e \in { x \in Range(log[m]) : x.ev = "send" } }
                \cap { JobId(e) : e \in { x \in Range(log[m]) : x.ev = "started" } }

Completed(m) == Range(Events(m, "complete"))

\* the events of Monitor m that follow its first 'stop'
StopIndex(m) ==
    CHOOSE k \in 1..Len(mlog[m]) :
        /\ mlog[m][k][1] = "stop"
        /\ \A j \in 1..(k - 1) : mlog[m][j][1] # "stop"

AfterStop(m) == SubSeq(mlog[m], StopIndex(m) + 1, Len(mlog[m]))

ExitsAfterStop(m) == Len(SelectSeq(AfterStop(m), LAMBDA e : e[1] = "exit"))

PendingTick(m) == \E i \in 1..Len(ticks) : ticks[i].m = m

\* every worker has answered what it was sent and every callback has run
Quiescent ==
    /\ ticks = <<>>
    /\ \A k \in Keys : child[k].inbox = <<>> /\ child[k].outbox = <<>>

-----------------------------------------------------------------------------
(* Properties *)

\* C1: FIFO per supervisor.  For every Monitor the jobs whose 'complete'
\* was emitted are, in order of emission, an initial part of the jobs
\* submitted to its queue in order of submission: if a was submitted
\* before b, 'complete' for a precedes 'complete' for b.
C1_FifoComplete ==
    \A m \in Keys :
        LET done == Events(m, "complete")
            subm == Submitted(m)
        IN  /\ Len(done) <= Len(subm)
            /\ \A i \in 1..Len(done) : done[i] = subm[i]

\* C1 witness: a Monitor has completed two jobs
C1_Witness == \E m \in Keys : Len(Events(m, "complete")) >= 2

\* C2: at most one job per supervisor is begun and not completed.  The
\* head of a queue that is not empty is begun (a job submitted into an
\* empty queue at once, the successor when its predecessor completes), no
\* job behind the head is begun, and only the head can be in flight.
C2_OneJobInFlight ==
    \A m \in Keys :
        LET q == QueueIds(m)
            inFlight == Begun(m) \ Completed(m)
        IN  /\ Cardinality(inFlight) <= 1
            /\ Len(q) > 0 => q[1] \in Begun(m)
            /\ \A i \in 2..Len(q) : q[i] \notin Begun(m)
            /\ inFlight \subseteq (IF Len(q) > 0 THEN {q[1]} ELSE {})

\* C2 witness: a job is in flight while another waits behind it
C2_Witness ==
    \E m \in Keys :
        /\ Len(queue[m]) >= 2
        /\ QueueIds(m)[1] \in Begun(m) \ Completed(m)

\* C3: per supervisor, 'started' of a job precedes the send of its
\* BUILD_REQUEST, and 'complete' of the i-th job of the queue precedes
\* 'started' of the (i+1)-th.
C3_StartedSendComplete ==
    \A m \in Keys :
        LET subm == Submitted(m)
        IN  \A i \in 1..Len(subm) :
                /\ Has(m, "send", subm[i]) =>
                       /\ Has(m, "started", subm[i])
                       /\ Pos(m, "started", subm[i]) < Pos(m, "send", subm[i])
                /\ (i < Len(subm) /\ Has(m, "started", subm[i + 1])) =>
                       /\ Has(m, "complete", subm[i])
                       /\ Pos(m, "complete", subm[i]) < Pos(m, "started", subm[i + 1])

\* C3 witness: the second job of a queue was started and sent
C3_Witness ==
    \E m \in Keys :
        /\ Len(Submitted(m)) >= 2
        /\ Has(m, "send", Submitted(m)[2])

\* C4 as stated: a buildTarget run emits 'finish' at most once, and when
\* it has, every job the run dispatched has had its 'complete' or its
\* pool 'skipped'.
C4_FinishAfterAllJobs ==
    \A b \in 1..Len(builders) :
        /\ builders[b].finished <= 1
        /\ builders[b].finished >= 1 =>
               \A f \in builders[b].dispatched :
                   \/ \E m \in Keys : <<b, f>> \in Completed(m)
                   \/ <<b, f>> \in hist.poolSkipped

\* C5 as stated: a run that repeats a complete build of its package on an
\* unchanged source tree submits no job to a worker, finishes at once,
\* saves no database and does not write the manifest again.
C5_IdempotentRebuild ==
    \A b \in 1..Len(builders) :
        builders[b].repeat =>
            LET p == builders[b].pkg
            IN  /\ \A m \in Keys : \A i \in 1..Len(Submitted(m)) : Submitted(m)[i][1] # b
                /\ builders[b].finished = 1
                /\ ~sdb[p].dirty /\ ~tdb[p].dirty
                /\ sdb[p].saves + tdb[p].saves = builders[b].savesAtStart
                /\ fs.manifestWrites[p] = builders[b].manifestAtStart

\* C6 as stated: the worker exited while it handled the first
\* BUILD_REQUEST of its queue, maxRestartCount is 2, the Monitor restarted
\* it and the worker program builds every file.  Once nothing is left to
\* run, the only build run has emitted 'finish' with success and the
\* source database holds the record of the file.
C6_BuildSurvivesCrash ==
    \A m \in hist.crashedOnBuild :
        ( /\ mon[m].maxRestartCount = 2
          /\ hist.restarts[m] >= 1
          /\ <<"restart", "tick">> \in Range(mlog[m])
          /\ child[m].alive
          /\ Len(builders) = 1
          /\ worker.failing = {}
          /\ hist.shutdowns = 0
          /\ ~halted
          /\ Quiescent )
        => /\ builders[1].finished = 1
           /\ builders[1].finishSuccess
           /\ DbHas(sdb[builders[1].pkg], Submitted(m)[1][2])

\* C7 as stated: a Monitor that gave up (emitted 'exit' from start because
\* of the restart limit) has restarted its child maxRestartCount times.
C7_RestartsUpToLimit ==
    \A m \in hist.capExit : hist.restarts[m] = mon[m].maxRestartCount

\* C8: kill(false) on a running child is terminal.  After the 'stop' no
\* new child is spawned (a live child is the signalled one), 'exit' is
\* emitted at most once, only when the child is gone, and exactly once as
\* soon as the child is gone and the callbacks of the Monitor have run.
C8_KillIsTerminal ==
    \A m \in hist.killed :
        /\ child[m].alive => child[m].signalled
        /\ ExitsAfterStop(m) <= 1
        /\ ExitsAfterStop(m) = 1 => ~child[m].alive /\ ~mon[m].isRunning
        /\ (~child[m].alive /\ ~PendingTick(m)) => ExitsAfterStop(m) = 1
        /\ \A i \in 1..Len(AfterStop(m)) : AfterStop(m)[i][1] # "stop"

\* C8 witness: a killed child has exited and 'exit' followed 'stop'
C8_Witness == \E m \in hist.killed : ExitsAfterStop(m) = 1

C10_TerminatedOnceAllExited ==
    hist.shutdowns > 0 =>
        /\ hist.terminatedAfterShutdown <= 1
        /\ hist.aliveAtTerminated = {}

\* C11 as stated: once a ProjectBuilder that has a pool was disposed of
\* and the pool has emitted 'terminated', 'disposed' has been emitted.
C11_DisposedOnTerminated ==
    (hist.disposedPool /\ hist.terminatedAfterShutdown >= 1) => hist.disposed >= 1

\* the Monitors created by startup, and those whose 'start' was delivered
Created == { m \in Keys : mon[m].created }

Started == { m \in Keys : \E i \in 1..Len(mlog[m]) : mlog[m][i][1] = "start" }

\* C12: the pending counter of the pool is the number of created Monitors
\* whose 'start' has not been delivered (so it is never negative), 'ready'
\* is emitted at most once, only when every created Monitor has started,
\* and it has been emitted as soon as the last of them has.
C12_ReadyWhenAllStarted ==
    /\ pool.waitCount = Cardinality(Created \ Started)
    /\ pool.waitCount >= 0
    /\ hist.ready <= 1
    /\ hist.ready = 1 => (Created # {} /\ Created \subseteq Started)
    /\ (Created # {} /\ Created \subseteq Started) => hist.ready = 1

\* C12 witness: two Monitors were created, both have started, 'ready' was emitted
C12_Witness == Cardinality(Created) = 2 /\ Created \subseteq Started /\ hist.ready = 1

\* C13 as stated: when the fork of a worker fails no exception leaves
\* start(), the Monitor is not running, its 'error' event is queued or was
\* delivered and re-emitted by the pool, and the pool has not emitted 'ready'.
C13_SpawnFailureIsAnEvent ==
    \A m \in hist.spawnFailed :
        /\ ~halted
        /\ ~mon[m].isRunning
        /\ \/ \E i \in 1..Len(ticks) : ticks[i] = [fn |-> "errorSpawningChildProcess", m |-> m]
           \/ (<<"error", "tick">> \in Range(mlog[m]) /\ hist.poolErrors >= 1)
        /\ hist.ready = 0

\* the launch identity of a Monitor configuration: working directory,
\* absolute path and argument list
LaunchIdentity(mc) ==
    LET path == PathJoin(ProcessorRoot, mc.path)
    IN  <<IF mc.workingDirectory # <<>> THEN mc.workingDirectory ELSE Dirname(path),
          path, mc.arguments>>

DefinedRoutes == { r \in RouteSet : hist.pipeline[r] # NoLaunch }
SupervisorOf(r) == CHOOSE m \in Keys : r \in Range(mon[m].types)

\* C14: after startup two routes have the same supervisor exactly when their
\* configurations have the same launch identity (working directory, absolute
\* path, arguments), so there is one supervisor per distinct launch identity.
C14_OneSupervisorPerIdentity ==
    hist.startups > 0 =>
        /\ \A r1, r2 \in DefinedRoutes :
               (SupervisorOf(r1) = SupervisorOf(r2)) <=>
                   (LaunchIdentity(hist.pipeline[r1]) = LaunchIdentity(hist.pipeline[r2]))
        /\ Cardinality(Created) =
               Cardinality({ LaunchIdentity(hist.pipeline[r]) : r \in DefinedRoutes })

Registered(name) ==
    name \in RouteSet /\ \E m \in pool.pathTable : name \in Range(mon[m].types)

\* C15: findCompiler(type, platform) returns the supervisor registered for the
\* route "type.platform" if there is one, else the supervisor registered for
\* the route "type", else none.
C15_PlatformRouteFirst ==
    \A type \in {TypeX, TypeY}, platform \in {PlatformP, GENERIC_PLATFORM} :
        LET dotted == type \o <<".">> \o platform
        IN  FindCompiler(Cur, type, platform) =
                IF Registered(dotted) THEN SupervisorOf(dotted)
                ELSE IF Registered(type) THEN SupervisorOf(type)
                ELSE NoKey

C15_Witness ==
    /\ FindCompiler(Cur, TypeX, PlatformP) # NoKey
    /\ FindCompiler(Cur, TypeX, GENERIC_PLATFORM) # NoKey
    /\ FindCompiler(Cur, TypeX, PlatformP) # FindCompiler(Cur, TypeX, GENERIC_PLATFORM)
    /\ FindCompiler(Cur, TypeY, PlatformP) = pool.compilers[TypeY]
    /\ pool.compilers[TypeY] # NoKey

EmptyPipeline == hist.startups > 0 /\ DefinedRoutes = {}

\* a run of a package whose databases an earlier run has loaded and saved
LaterRun(b) == \E b0 \in 1..(b - 1) : builders[b0].pkg = builders[b].pkg

\* C16 as stated: with an empty pipeline every file of a finished run was
\* skipped with a reason beginning "No data compiler for resource type", the
\* run finished with errorCount = 0 and success = true, and neither database
\* was written during the run.
C16_SkippedWritesNothing ==
    EmptyPipeline =>
        \A b \in 1..Len(builders) :
            builders[b].finished >= 1 =>
                /\ \A f \in Range(SourceTree[builders[b].pkg]) : <<b, f>> \in hist.poolSkipped
                /\ \A r \in hist.skipReasons :
                       SubSeq(r, 1, Len(NoCompilerReason)) = NoCompilerReason
                /\ builders[b].errors = 0
                /\ builders[b].finishSuccess
                /\ sdb[builders[b].pkg].saves + tdb[builders[b].pkg].saves
                       = builders[b].savesAtStart

\* C16 amended: with an empty pipeline every file of a finished run was
\* skipped with that reason, the run finished with errorCount = 0 and
\* success = true, and no record was inserted into either database; the
\* databases are written only by the first run of the package, which
\* created them.
C16_SkippedInsertsNothing ==
    EmptyPipeline =>
        \A b \in 1..Len(builders) :
            builders[b].finished >= 1 =>
                LET p == builders[b].pkg
                IN  /\ \A f \in Range(SourceTree[p]) : <<b, f>> \in hist.poolSkipped
                    /\ \A r \in hist.skipReasons :
                           SubSeq(r, 1, Len(NoCompilerReason)) = NoCompilerReason
                    /\ builders[b].finished = 1
                    /\ builders[b].errors = 0
                    /\ builders[b].finishSuccess
                    /\ builders[b].skipped >= Len(SourceTree[p])
                    /\ sdb[p].entries = <<>> /\ tdb[p].entries = <<>>
                    /\ ~sdb[p].dirty /\ ~tdb[p].dirty
                    /\ LaterRun(b) =>
                           sdb[p].saves + tdb[p].saves = builders[b].savesAtStart

C16_Witness ==
    /\ EmptyPipeline
    /\ Len(builders) = 2
    /\ builders[1].pkg = builders[2].pkg
    /\ builders[2].finished = 1
    /\ builders[2].skipped >= 1
    /\ hist.skipReasons # {}

\* the primary key of a slot of entries ("" for a slot without a record)
EntryKey(en) == IF en = Hole \/ en = Null THEN "" ELSE en.relativePath

StoredKeys(db) == { EntryKey(db.entries[i]) : i \in 1..Len(db.entries) } \ {""}

\* the database objects of the client
ClientDatabases == {sdb[DbPackage], tdb[DbPackage]}

\* C17: after any sequence of insert and remove no two records of entries
\* have the same relativePath: the number of entries equals the number of
\* distinct primary keys.
C17_PrimaryKeysUnique ==
    \A db \in ClientDatabases : Len(db.entries) = Cardinality(StoredKeys(db))

\* C18: after any sequence of load, insert and remove, entryTable[k] = i
\* exactly when entries[i].relativePath = k, and query(k) returns the record
\* with key k when one is stored and nothing otherwise.
C18_IndexMatchesEntries ==
    \A db \in ClientDatabases :
        \A k \in DbKeys :
            /\ \A i \in 1..Len(db.entries) :
                   (db.entryTable[k] = i) <=> (EntryKey(db.entries[i]) = k)
            /\ db.entryTable[k] <= Len(db.entries)
            /\ IF k \in StoredKeys(db)
               THEN EntryKey(DbQuery(db, k)) = k
               ELSE DbQuery(db, k) = Hole

\* the database the last call of the client was made on
LastDb == IF hist.lastOp.db = "source" THEN sdb[DbPackage] ELSE tdb[DbPackage]

\* C19 as stated: dirty is true immediately after any call to insert or
\* remove, and false immediately after a save.
C19_DirtyAfterAnyChange ==
    /\ hist.lastOp.op \in {"insert", "remove"} => LastDb.dirty
    /\ hist.lastOp.op = "save" => ~LastDb.dirty

\* C19 amended: dirty is true immediately after any insert and after a
\* remove of a key that had an index entry, and false immediately after a
\* save; a remove of a key without index entry leaves the database alone.
C19_DirtyAfterChange ==
    /\ hist.lastOp.op = "insert" => LastDb.dirty
    /\ (hist.lastOp.op = "remove" /\ hist.lastOp.changed) => LastDb.dirty
    /\ hist.lastOp.op = "save" => ~LastDb.dirty

C19_Witness ==
    /\ hist.lastOp.op = "remove"
    /\ hist.lastOp.changed
    /\ LastDb.dirty
    /\ LastDb.saves >= 1

\* the position load gives a key: that of the last record with the key
RebuiltIndex(db, k) ==
    IF k \in StoredKeys(db)
    THEN CHOOSE i \in 1..Len(db.entries) :
             /\ EntryKey(db.entries[i]) = k
             /\ \A j \in (i + 1)..Len(db.entries) : EntryKey(db.entries[j]) # k
    ELSE 0

\* C20: loading the file a save wrote succeeds and yields the bundleName and
\* the records the database had when it was saved, an index rebuilt from the
\* records, and dirty = false.
C20_SaveLoadRoundTrip ==
    hist.lastOp.op = "load" =>
        /\ ~halted
        /\ LastDb.bundleName = hist.savedDb.bundleName
        /\ LastDb.platform = hist.savedDb.platform
        /\ LastDb.entries = hist.savedDb.entries
        /\ \A k \in DbKeys : LastDb.entryTable[k] = RebuiltIndex(LastDb, k)
        /\ ~LastDb.dirty

WalkDone == walk.tree # <<>> /\ walk.index = Len(walk.tree)

PlatformOf(sourcePath) == DeterminePlatform(ParseResourcePath(sourcePath).properties, 1)
ResourceNameOf(sourcePath) == ParseResourcePath(sourcePath).resourceName

\* C21: for a target platform other than generic, when the tree holds a
\* generic file and a file of the target platform with the same
\* resourceName, then in either order one candidate is kept for the name,
\* the platform-specific file, and one 'skipped' event with the reason
\* "overridden by platform-specific version" is emitted, for the generic file.
C21_PlatformFileOverrides ==
    (WalkDone /\ walk.target # GENERIC_PLATFORM) =>
        \A g, s \in Range(walk.tree) :
            (/\ ResourceNameOf(g) = ResourceNameOf(s)
             /\ PlatformOf(g) = GENERIC_PLATFORM
             /\ PlatformOf(s) = walk.target) =>
                /\ Cardinality({ i \in 1..Len(walk.sourceFiles) :
                        walk.sourceFiles[i].resourceName = ResourceNameOf(s) }) = 1
                /\ SourceFileOf(walk, ResourceNameOf(s)).sourcePath = s
                /\ Cardinality({ i \in 1..Len(walk.skipped) :
                        /\ walk.skipped[i].reason = WhyOverridden
                        /\ walk.skipped[i].sourcePath \in {g, s} }) = 1
                /\ \E i \in 1..Len(walk.skipped) :
                       /\ walk.skipped[i].reason = WhyOverridden
                       /\ walk.skipped[i].sourcePath = g

C21_Witness ==
    /\ WalkDone
    /\ walk.target = PlatformP
    /\ \E i, j \in 1..Len(walk.tree) :
           /\ i < j
           /\ walk.tree[i] = <<"a", ".", "x">>
           /\ walk.tree[j] = <<"a", ".", "p", ".", "x">>
    /\ Len(walk.skipped) >= 1

\* the hash of Target.targetPathFor with every round reduced to a signed
\* 32 bit number
Int32(n) == [hi |-> ((n.hi + Word \div 2) % Word) - Word \div 2, lo |-> n.lo]

RECURSIVE ReducedHashFrom(_, _, _)
ReducedHashFrom(hash, resourceName, i) ==
    IF i > Len(resourceName) THEN hash
    ELSE ReducedHashFrom(Int32(HashStep(hash, CharCode[resourceName[i]])), resourceName, i + 1)

\* the target paths checkSourceFile has computed so far
WalkTargets ==
    { <<walk.sourceFiles[i].resourceName, walk.sourceFiles[i].targetPath>> :
          i \in 1..Len(walk.sourceFiles) }
    \cup { <<ResourceNameOf(walk.skipped[i].sourcePath), walk.skipped[i].targetPath>> :
               i \in 1..Len(walk.skipped) }

\* C24: the stem targetPathFor computes for a resourceName is the lowercase
\* hexadecimal form of the hash whose every round is reduced to 32 bit signed
\* two's complement, and the final value of the hash lies in [-2^31, 2^31).
C24_StemIsInt32Hash ==
    \A nt \in WalkTargets :
        /\ nt[2] = ToString16(ReducedHashFrom([hi |-> 0, lo |-> 0], nt[1], 1))
        /\ LET h == HashFrom([hi |-> 0, lo |-> 0], nt[1], 1)
           IN  h.hi >= 0 - Word \div 2 /\ h.hi < Word \div 2

\* the name of the file of a path and the number of '.' in it
FileNameOf(sourcePath) == Substring(sourcePath, LastIndexOf(sourcePath, "/") + 1, Len(sourcePath))
DotsIn(str) == Cardinality({ i \in 1..Len(str) : str[i] = "." })

\* C25: parseResourcePath of a path whose file name holds no '.' returns an
\* empty resourceType and an empty properties list, and of a file name with
\* exactly one '.' an empty properties list.
C25_NoDotNoTypeNoProperties ==
    \A i \in 1..walk.index :
        LET parts == ParseResourcePath(walk.tree[i])
            dots == DotsIn(FileNameOf(walk.tree[i]))
        IN  /\ dots = 0 => (parts.resourceType = <<>> /\ parts.properties = <<>>)
            /\ dots = 1 => parts.properties = <<>>

\* C22: when a was built with reference b and the modification time of b
\* then advances, the next run of the package rebuilds a, and after that run
\* the record of b in the source database carries the new modification time
\* of b.
C22_TouchedDependencyIsRefreshed ==
    \A b \in 1..Len(builders) :
        ( /\ builders[b].finished = 1
          /\ builders[b].errors = 0
          /\ builders[b].touches = hist.touches ) =>
            \A sr \in builders[b].staleDeps :
                /\ sr[1] \in builders[b].dispatched
                /\ DbQuery(sdb[builders[b].pkg], sr[2]).writeTime = fs.mtime[sr[2]]

\* the latest run, begun when no other run was under way, has finished
LastRunDone ==
    /\ builders # <<>>
    /\ builders[Len(builders)].alone
    /\ builders[Len(builders)].finished = 1

\* C23: at the end of a run the package manifest is written again unless it
\* existed already, neither database was dirtied and no build took place;
\* in particular it is written whenever a database was dirtied in the run.
C23_ManifestWrittenUnlessNothingChanged ==
    LastRunDone =>
        LET run == builders[Len(builders)]
            p == run.pkg
            existed == run.manifestAtStart > 0
            dirtied == sdb[p].saves + tdb[p].saves > run.savesAtStart
            built == run.success + run.errors > 0
            written == fs.manifestWrites[p] > run.manifestAtStart
        IN  written <=> ~(existed /\ ~dirtied /\ ~built)

\* C23 amended: the manifest is written at the end of a run exactly when
\* the run had no error and it is not the case that the manifest existed,
\* neither database was dirtied and no build took place; a run with an
\* error leaves the manifest alone even when it dirtied a database.
C23_ManifestWrittenUnlessErrorOrNothingChanged ==
    LastRunDone =>
        LET run == builders[Len(builders)]
            p == run.pkg
            existed == run.manifestAtStart > 0
            dirtied == sdb[p].saves + tdb[p].saves > run.savesAtStart
            built == run.success + run.errors > 0
            written == fs.manifestWrites[p] > run.manifestAtStart
        IN  written <=> (run.errors = 0 /\ ~(existed /\ ~dirtied /\ ~built))

\* a run that changed nothing has finished and has left the manifest of an
\* earlier run alone
C23_Witness ==
    /\ LastRunDone
    /\ LET run == builders[Len(builders)]
       IN  /\ run.manifestAtStart > 0
           /\ run.skipped > 0 /\ run.success + run.errors = 0
           /\ sdb[run.pkg].saves + tdb[run.pkg].saves = run.savesAtStart
           /\ fs.manifestWrites[run.pkg] = run.manifestAtStart

\* C26: a candidate of a run is skipped as up-to-date exactly when the
\* source database holds its record, its mtime and size equal the stored
\* ones, every transitive dependency of the record is in the database and
\* unchanged on disk, and every declared output of its target record
\* exists; every other candidate is marked for build.
C26_SkippedIffUpToDate ==
    \A b \in 1..Len(builders) :
        builders[b].started =>
            \A f \in Range(SourceTree[builders[b].pkg]) :
                (f \notin builders[b].marked) <=> (f \in builders[b].upToDate)

\* the same for the candidates whose record names no dependency
C26_SkippedIffUpToDateWithoutDependency ==
    \A b \in 1..Len(builders) :
        builders[b].started =>
            \A f \in Range(SourceTree[builders[b].pkg]) :
                (DbHas(sdb[builders[b].pkg], f) =>
                     DbQuery(sdb[builders[b].pkg], f).dependencies = <<>>) =>
                ((f \notin builders[b].marked) <=> (f \in builders[b].upToDate))

\* the paths of a worker's report, relative to the package root
RelativeSet(paths) == { PathRelative(RootPath, paths[i]) : i \in 1..Len(paths) }

\* C27: right after the TargetBuilders have handled a 'complete' with
\* success for the source s that reports the references R and the outputs
\* O, the source database holds the record of s; for every r of R it holds a
\* record of r, s is among the references of r and r among the dependencies
\* of s; and the target database holds one record for the target path of s
\* whose outputs are the paths of O relative to the package root, each once.
C27_CompleteIngestsReferencesAndOutputs ==
    LET c == hist.lastComplete
        sdb1 == c.after.sdb[c.pkg]
        tdb1 == c.after.tdb[c.pkg]
    IN  (c.run > 0 /\ c.success /\ c.heard) =>
            /\ DbHas(sdb1, c.file)
            /\ \A r \in RelativeSet(c.references) :
                   /\ DbHas(sdb1, r)
                   /\ c.file \in Range(DbQuery(sdb1, r).references)
                   /\ r \in Range(DbQuery(sdb1, c.file).dependencies)
            /\ Cardinality({ i \in 1..Len(tdb1.entries) :
                    tdb1.entries[i].relativePath = TargetPathFor[c.file] }) = 1
            /\ DbHas(tdb1, TargetPathFor[c.file])
            /\ LET outputs == DbQuery(tdb1, TargetPathFor[c.file]).outputs
               IN  /\ Range(outputs) = RelativeSet(c.outputs)
                   /\ Len(outputs) = Cardinality(RelativeSet(c.outputs))

\* a successful build that reported a reference, and one output twice
C27_Witness ==
    /\ hist.lastComplete.success /\ hist.lastComplete.heard
    /\ hist.lastComplete.references # <<>>
    /\ Len(hist.lastComplete.outputs) = 2
    /\ Len(DbQuery(hist.lastComplete.after.tdb[hist.lastComplete.pkg], TargetPathFor[hist.lastComplete.file]).outputs) = 1

\* the records, the index and the dirty flag of every database
DbContents(dbs) ==
    [p \in Packages |-> [entries |-> dbs[p].entries, entryTable |-> dbs[p].entryTable,
                         dirty |-> dbs[p].dirty]]

\* C28: a 'complete' with success = false leaves both databases as they
\* were (same records, same index, same dirty flags) and increments the
\* error counter of the run of the job and no other counter; the run then
\* finishes with success = false.
C28_FailureLeavesDatabasesAlone ==
    LET c == hist.lastComplete
    IN  (c.run > 0 /\ ~c.success /\ c.heard) =>
            /\ ~c.thrown
            /\ DbContents(c.after.sdb) = DbContents(c.before.sdb)
            /\ DbContents(c.after.tdb) = DbContents(c.before.tdb)
            /\ c.after.counts = [c.before.counts EXCEPT ![c.run].errors = @ + 1]
            /\ builders[c.run].finished = 1 => ~builders[c.run].finishSuccess

\* the part of C28 that fails for a run of its own on a new pool only
\* because the last event of a run makes targetComplete save the databases
C28_FailureKeepsRecords ==
    LET c == hist.lastComplete
    IN  (c.run > 0 /\ ~c.success /\ c.heard) =>
            /\ ~c.thrown
            /\ \A p \in Packages :
                   /\ c.after.sdb[p].entries = c.before.sdb[p].entries
                   /\ c.after.tdb[p].entries = c.before.tdb[p].entries
            /\ c.after.counts = [c.before.counts EXCEPT ![c.run].errors = @ + 1]

\* C29: the first message sent to the worker of every Monitor is
\* VERSION_QUERY, no BUILD_REQUEST is sent to a Monitor that has not emitted
\* 'start', and a build submitted for such a Monitor does not fail.
\* (hist.sent keeps the first message sent to a worker and every
\* BUILD_REQUEST sent before 'start'.)
C29_NoBuildBeforeStart ==
    /\ \A m \in Keys :
           hist.sent[m] # <<>> => hist.sent[m] = <<VERSION_QUERY>>
    /\ hist.failedBuilds = {}

\* the part of C29 about the messages that are sent
C29_VersionQueryFirst ==
    \A m \in Keys : hist.sent[m] # <<>> => hist.sent[m] = <<VERSION_QUERY>>

\* C30: of the TargetBuilders that share a pool each ingests into its own
\* databases and counts toward its own counters only the events of the jobs
\* it submitted itself: a 'complete' of a job of one run changes neither the
\* counters nor the expected events of another run, does not finish another
\* run, and leaves the databases of other packages as they were.
C30_BuildersCountOwnJobs ==
    LET c == hist.lastComplete
    IN  (c.run > 0 /\ c.heard) =>
            /\ \A b \in 1..Len(c.before.counts) :
                   b # c.run =>
                       /\ c.after.counts[b] = c.before.counts[b]
                       /\ c.after.expect[b] = c.before.expect[b]
            /\ \A p \in Packages \ {c.pkg} :
                   /\ c.after.sdb[p].entries = c.before.sdb[p].entries
                   /\ c.after.tdb[p].entries = c.before.tdb[p].entries

\* C31: after CompilerCache.shutdown() has been called no Monitor spawns a
\* child process again, also when a child had exited unexpectedly and its
\* restart was still pending at the time of the call.
C31_NoSpawnAfterShutdown ==
    hist.spawnedAfterShutdown = {}

\* the request of a job, or the answer to it, is on the IPC channel of the
\* worker of Monitor m
InFlight(m, job) ==
    \/ \E i \in 1..Len(child[m].inbox) :
           /\ child[m].inbox[i].type = BUILD_REQUEST
           /\ child[m].inbox[i].job.run = job.run /\ child[m].inbox[i].job.file = job.file
    \/ \E i \in 1..Len(child[m].outbox) :
           /\ child[m].outbox[i].type = BUILD_RESULT
           /\ child[m].outbox[i].job.run = job.run /\ child[m].outbox[i].job.file = job.file

\* C32: every job that was begun on a Monitor ('started' emitted) has its
\* BUILD_REQUEST delivered to a connected child: while the job is at the
\* head of the queue and the Monitor has a running child (no restart is
\* pending, no shutdown was asked for), the request or the worker's answer
\* to it is on the IPC channel, so the job does not stay at the head of the
\* queue forever.
C32_BegunJobIsDelivered ==
    \A m \in Keys :
        ( /\ ~halted
          /\ hist.shutdowns = 0
          /\ mon[m].hasQueue /\ queue[m] # <<>>
          /\ Has(m, "started", <<queue[m][1].run, queue[m][1].file>>)
          /\ mon[m].isRunning /\ child[m].alive /\ ~child[m].signalled
          /\ ~PendingTick(m) )
        => InFlight(m, queue[m][1])

\* C33: a BUILD_RESULT message that is delivered while the queue of its
\* Monitor is empty emits no 'complete', raises no error and changes no
\* queue state.
C33_ResultOnEmptyQueueIsIgnored ==
    [][\A m \in Keys :
          ( /\ ~halted /\ ticks = <<>>
            /\ child[m].alive /\ child[m].outbox # <<>>
            /\ Head(child[m].outbox).type = BUILD_RESULT
            /\ mon[m].hasQueue /\ queue[m] = <<>>
            /\ child'[m].outbox = Tail(child[m].outbox) )
          => (~halted' /\ queue' = queue /\ log' = log)]_vars

KeptInWalk(f) == \E i \in 1..Len(walk.sourceFiles) : walk.sourceFiles[i].sourcePath = f
SkipsInWalk(f) == Cardinality({ i \in 1..Len(walk.skipped) : walk.skipped[i].sourcePath = f })

\* C35: at the end of determineSourceFiles every file the walk visited is
\* either one of the candidates, or exactly one 'skipped' event was emitted
\* for it; no file is dropped without an event.
C35_KeptOrSkippedOnce ==
    WalkDone =>
        \A f \in Range(walk.tree) :
            \/ KeptInWalk(f) /\ SkipsInWalk(f) = 0
            \/ ~KeptInWalk(f) /\ SkipsInWalk(f) = 1

\* the records a source database holds, by relative path
SourceRecords(db) == { f \in Files : DbHas(db, f) /\ DbQuery(db, f) # Hole }

\* C36: in every source database the dependencies and the references stay
\* inverse over any sequence of ingested results: when y is among the
\* dependencies of the record of x, then y has a record and x is among its
\* references.
C36_DependenciesInverseOfReferences ==
    ~halted =>
        \A p \in Packages :
            \A x \in SourceRecords(sdb[p]) :
                \A y \in Range(DbQuery(sdb[p], x).dependencies) :
                    /\ y \in SourceRecords(sdb[p])
                    /\ x \in Range(DbQuery(sdb[p], y).references)

\* C37: over any sequence of build runs the sourcePath of every record of
\* a target database resolves to a record of the source database of the
\* package, so writePackageManifest never reads a missing source record.
C37_TargetRecordsHaveSource ==
    \A p \in Packages :
        \A i \in 1..Len(tdb[p].entries) :
            tdb[p].entries[i] # Hole =>
                /\ DbHas(sdb[p], tdb[p].entries[i].sourcePath)
                /\ DbQuery(sdb[p], tdb[p].entries[i].sourcePath) # Hole

\* a second run has finished over databases that hold target records
C37_Witness ==
    /\ ~halted
    /\ \E b \in 1..Len(builders) :
           /\ b > 1
           /\ builders[b].finished = 1
           /\ Len(tdb[builders[b].pkg].entries) > 0
           /\ fs.manifestWrites[builders[b].pkg] > 1

\* the run b is the next run of its package after the run b0, and began
\* when every earlier run had finished
NextRunOf(b0, b) ==
    /\ b0 < b
    /\ builders[b].pkg = builders[b0].pkg
    /\ builders[b].alone
    /\ \A b1 \in 1..Len(builders) : (b0 < b1 /\ b1 < b) => builders[b1].pkg # builders[b].pkg

\* C38: a file whose build failed in a run is chosen for building again in
\* the next run of the package over an unchanged source tree: a failed
\* build never makes the file count as up to date.
C38_FailedFileIsBuiltAgain ==
    \A b0, b \in 1..Len(builders) :
        (NextRunOf(b0, b) /\ builders[b].touches = builders[b0].touches) =>
            \A f \in Files :
                <<b0, f>> \in hist.failedJobs => f \in builders[b].marked

\* C39: when a source file is modified after the enumeration of a run and
\* before its 'complete' is ingested, the record stored for it carries the
\* modification time and size seen at the enumeration, and a run of the
\* package that begins while this is the last result ingested for the file
\* chooses the file for building again.
C39_RecordCarriesEnumeratedStat ==
    /\ LET c == hist.lastComplete
       IN  (c.run > 0 /\ c.success /\ c.heard /\ ~c.thrown) =>
               /\ DbHas(c.after.sdb[c.pkg], c.file)
               /\ DbQuery(c.after.sdb[c.pkg], c.file).writeTime
                      = builders[c.run].enumerated[c.file]
               /\ DbQuery(c.after.sdb[c.pkg], c.file).fileSize = fs.size[c.file]
    /\ \A b \in 1..Len(builders) :
           builders[b].started => builders[b].lateAtStart \subseteq builders[b].marked

\* a file without dependencies was modified between the enumeration of the
\* first run and the arrival of its result, and a second run of the package
\* has chosen it
C39_Witness ==
    \E f \in Files :
        /\ Len(builders) > 1
        /\ f \in builders[2].lateAtStart
        /\ DbQuery(sdb[builders[2].pkg], f).dependencies = <<>>
        /\ f \in builders[2].marked

\* C40: whenever the records a database holds in memory differ from those
\* it held when it was last loaded or saved, its dirty flag is true; also
\* when the change was made by addReference, addDependency or addOutput
\* without an insert after it.
C40_DirtyWhenChanged ==
    (~halted /\ hist.lastOp.db # "") =>
        (LastDb.entries # hist.cleanDb => LastDb.dirty)

====
